---- MODULE Spec2Model ----
(***************************************************************************)
(* Position lifecycle of the trading pipeline: EntryExecution (open),      *)
(* TradeManagement (manage) and ExitExecution (close), driven in the order *)
(* the graph wires them (entry -> management -> exit -> END) and with the  *)
(* results written into the pipeline state the way the graph nodes do.     *)
(*                                                                         *)
(* Numbers.  The code computes in binary floating point and rounds with    *)
(* round(x, 2) / round(x, 4).  The model computes exactly on integers:     *)
(*   prices, balances, risk budgets, pnl   in cents        (0.01 USDT)     *)
(*   position sizes                        in 1/10000 unit (0.0001 ETH)    *)
(*   percentages                           in 1/100 percent                *)
(* and round() is round-half-to-even of the exact quotient.  Inputs are    *)
(* quoted in whole cents.                                                  *)
(*                                                                         *)
(* Calls.  graph.py calls the coroutine functions EntryExecution.execute   *)
(* and ExitExecution.execute (graph.py:753, 911); the lifecycle below is   *)
(* the one of a driver that obtains their results (as the unit tests do,   *)
(* with await) and then handles them as the node bodies do.                *)
(***************************************************************************)
EXTENDS Integers, Sequences, FiniteSets, TLC

\* ------------------------------------------------------------------------
\* Bounds of the model
\* ------------------------------------------------------------------------
MaxManage == 2

\* ------------------------------------------------------------------------
\* Python values
\* ------------------------------------------------------------------------
None == [none |-> TRUE]

Max(a, b) == IF a >= b THEN a ELSE b

Min(a, b) == IF a <= b THEN a ELSE b

Abs(a) == IF a >= 0 THEN a ELSE 0 - a

RECURSIVE GCD(_, _)
GCD(a, b) == IF b = 0 THEN a ELSE GCD(b, a % b)

\* round(a * m / b) for a, m >= 0 and b > 0, half to even.  m/b is reduced
\* and the division is taken before the multiplication, so that no
\* intermediate leaves 32 bits.
MulDivRound(a, m, b) ==
    LET g == GCD(b, m)
        mm == m \div g
        bb == b \div g
        q == a \div bb
        r == a % bb
        t == r * mm
        F == q * mm + (t \div bb)
        rem == t % bb
    IN  IF 2 * rem < bb THEN F
        ELSE IF 2 * rem > bb THEN F + 1
        ELSE IF F % 2 = 0 THEN F ELSE F + 1

\* a1/b1 > a2/b2 for a1, a2 >= 0 and b1, b2 > 0
FracGT(a1, b1, a2, b2) ==
    LET q1 == a1 \div b1
        r1 == a1 % b1
        q2 == a2 \div b2
        r2 == a2 % b2
    IN  \/ q1 > q2
        \/ q1 = q2 /\ r1 * b2 > r2 * b1

\* ------------------------------------------------------------------------
\* EntryExecution (agents/entry_execution.py)
\* A setup is None or [direction, has_ideal, ideal, stop, target]; a missing
\* stop_loss price or an empty targets list reads as 0.
\* A config is [best_setup, account_balance, position_size_limit,
\*              current_price, entry_bias, hummingbot_client].
\* ------------------------------------------------------------------------
setup_entry_price(cfg) ==
    IF cfg.best_setup.has_ideal THEN cfg.best_setup.ideal ELSE cfg.current_price

\* A sizing that caps the position value at 2% of the balance.
calculate_position_size_two_percent(cfg) ==
    IF cfg.best_setup = None THEN [num |-> 0, den |-> 1, capped |-> FALSE]
    ELSE
    LET entry_price == setup_entry_price(cfg)
        stop_loss == cfg.best_setup.stop
        max_loss == cfg.position_size_limit
        risk_per_unit == IF entry_price > stop_loss THEN entry_price - stop_loss
                         ELSE stop_loss - entry_price
    IN  IF entry_price <= 0 \/ stop_loss <= 0 THEN [num |-> 0, den |-> 1, capped |-> FALSE]
        ELSE IF entry_price = stop_loss THEN [num |-> 0, den |-> 1, capped |-> FALSE]
        ELSE IF FracGT(max_loss, risk_per_unit, cfg.account_balance, 50 * entry_price)
             THEN [num |-> Max(0, cfg.account_balance), den |-> 50 * entry_price, capped |-> TRUE]
             ELSE [num |-> Max(0, max_loss), den |-> risk_per_unit, capped |-> FALSE]

\* The exact size is the fraction num/den (units); [num |-> 0, den |-> 1] is 0.0.
\* capped tells which of the two formulas produced it.
calculate_position_size(cfg) ==
    IF cfg.best_setup = None THEN [num |-> 0, den |-> 1, capped |-> FALSE]
    ELSE
    LET entry_price == setup_entry_price(cfg)
        stop_loss == cfg.best_setup.stop
        max_loss == cfg.position_size_limit
        risk_per_unit == IF entry_price > stop_loss THEN entry_price - stop_loss
                         ELSE stop_loss - entry_price
    IN  IF entry_price <= 0 \/ stop_loss <= 0 THEN [num |-> 0, den |-> 1, capped |-> FALSE]
        ELSE IF entry_price = stop_loss THEN [num |-> 0, den |-> 1, capped |-> FALSE]
        \* position_value_usdt > max_position_value, i.e.
        \* (max_loss / risk_per_unit) * entry_price > account_balance * 0.05
        ELSE IF FracGT(max_loss, risk_per_unit, cfg.account_balance, 20 * entry_price)
             THEN [num |-> Max(0, cfg.account_balance), den |-> 20 * entry_price, capped |-> TRUE]
             ELSE [num |-> Max(0, max_loss), den |-> risk_per_unit, capped |-> FALSE]

create_position(cfg, size) ==
    LET entry_price == setup_entry_price(cfg)
        direction == cfg.best_setup.direction
    IN  [ trade_id |-> 1,
          entry_price |-> entry_price,
          stop_loss |-> cfg.best_setup.stop,
          take_profit |-> cfg.best_setup.target,
          \* round(position_size, 4)
          position_size |-> MulDivRound(size.num, 10000, size.den),
          \* round(position_size * entry_price, 2)
          position_value |-> MulDivRound(size.num, entry_price, size.den),
          entry_type |-> IF direction \in {"long", "short"} THEN direction
                         ELSE cfg.entry_bias ]

\* A validation that checks the stop side only.
validate_position_stop_only(cfg, position) ==
    /\ ~(position.entry_price <= 0)
    /\ ~(position.stop_loss <= 0)
    /\ ~(position.take_profit <= 0)
    /\ ~(position.position_size <= 0)
    /\ IF position.entry_type = "long"
       THEN ~(position.stop_loss >= position.entry_price)
       ELSE ~(position.stop_loss <= position.entry_price)
    /\ ~(position.position_value > cfg.account_balance)

validate_position(cfg, position) ==
    /\ ~(position.entry_price <= 0)
    /\ ~(position.stop_loss <= 0)
    /\ ~(position.take_profit <= 0)
    /\ ~(position.position_size <= 0)
    /\ IF position.entry_type = "long"
       THEN /\ ~(position.stop_loss >= position.entry_price)
            /\ ~(position.take_profit <= position.entry_price)
       ELSE /\ ~(position.stop_loss <= position.entry_price)
            /\ ~(position.take_profit >= position.entry_price)
    /\ ~(position.position_value > cfg.account_balance)

\* order is the adapter's answer to place_order: "ok", "none" (falsy answer)
\* or "raise" (exception, caught by place_order and turned into None).
place_order(hummingbot_client, order) ==
    IF ~hummingbot_client THEN None
    ELSE IF order = "ok" THEN [order_id |-> 1]
    ELSE None

\* An entry that does not look at the adapter's answer.
place_entry_order_unchecked(cfg, position, order) ==
    IF ~cfg.hummingbot_client THEN None
    ELSE [order_id |-> 1]

place_entry_order(cfg, position, order) ==
    IF ~cfg.hummingbot_client THEN None
    ELSE place_order(cfg.hummingbot_client, order)

EntryFailed(msg) ==
    [ node |-> "entry_execution", entry_successful |-> FALSE,
      trade_position |-> None, execution_message |-> msg ]

EntryExecution_execute(cfg, order) ==
    IF cfg.best_setup = None THEN EntryFailed("No setup provided for entry execution")
    ELSE
    LET position_size == calculate_position_size(cfg)
    IN  IF position_size.num <= 0
        THEN EntryFailed("Position size calculation failed or insufficient capital")
        ELSE
        LET trade_position == create_position(cfg, position_size)
        IN  IF ~validate_position(cfg, trade_position)
            THEN EntryFailed("Position validation failed")
            ELSE IF place_entry_order(cfg, trade_position, order) = None
            THEN EntryFailed("Failed to place entry order")
            ELSE [ node |-> "entry_execution", entry_successful |-> TRUE,
                   trade_position |-> trade_position,
                   execution_message |-> "Entry executed" ]

\* ------------------------------------------------------------------------
\* TradeManagement (agents/trade_management.py)
\* A config is [open_position, current_price, momentum, rsi,
\*              divergence_detected]; open_position is None or a position.
\* ------------------------------------------------------------------------
detect_exit_signal(cfg) ==
    LET entry_type == cfg.open_position.entry_type
    IN  \/ cfg.divergence_detected
        \/ entry_type = "long" /\ cfg.momentum = "strong_down"
        \/ entry_type = "short" /\ cfg.momentum = "strong_up"
        \/ cfg.rsi > 85 \/ cfg.rsi < 15

calculate_position_status(cfg) ==
    LET entry_price == cfg.open_position.entry_price
        entry_type == cfg.open_position.entry_type
        \* price move in the position's favour, in cents
        move == IF entry_type = "long" THEN cfg.current_price - entry_price
                ELSE entry_price - cfg.current_price
        sign == IF move >= 0 THEN 1 ELSE 0 - 1
    IN  [ \* round(pnl, 2) with pnl = move * position_size, in cents
          current_pnl |-> sign * MulDivRound(cfg.open_position.position_size,
                                             Abs(move), 10000),
          \* round(pnl_percent, 2), in 1/100 percent
          current_pnl_percent |-> sign * MulDivRound(Abs(move), 10000, entry_price),
          \* pnl > 0, pnl < 0 with position_size > 0
          position_status |-> IF move > 0 THEN "winning"
                              ELSE IF move < 0 THEN "losing" ELSE "breakeven",
          stop_level |-> cfg.open_position.stop_loss,
          \* pnl_percent = move / entry_price * 100 >= 1.0
          is_breakeven_eligible |-> move * 100 >= entry_price,
          partial_profit_eligible |-> move * 100 >= 2 * entry_price,
          exit_signal_detected |-> detect_exit_signal(cfg) ]

\* A breakeven rule that moves the stop to the current price instead.
adjust_to_current_price(cfg) ==
    IF cfg.open_position.entry_type = "long"
    THEN cfg.current_price
    ELSE cfg.current_price

adjust_to_breakeven(cfg) ==
    IF cfg.open_position.entry_type = "long"
    THEN cfg.open_position.entry_price
    ELSE cfg.open_position.entry_price

\* A trailing rule that forgets the current stop.
calculate_trailing_stop_unguarded(cfg) ==
    IF cfg.open_position.entry_type = "long"
    THEN MulDivRound(cfg.current_price * 98, 1, 100)
    ELSE MulDivRound(cfg.current_price * 102, 1, 100)

\* new_stop in cents: round(max(current_price * 0.98, current_stop), 2) for a
\* long, round(min(current_price * 1.02, current_stop), 2) otherwise; the
\* comparison is made in 1/100 cent, then rounded.
calculate_trailing_stop(cfg) ==
    LET current_stop == cfg.open_position.stop_loss
    IN  IF cfg.open_position.entry_type = "long"
        THEN MulDivRound(Max(cfg.current_price * 98, current_stop * 100), 1, 100)
        ELSE MulDivRound(Min(cfg.current_price * 102, current_stop * 100), 1, 100)

TradeManagement_execute(cfg) ==
    IF cfg.open_position = None
    THEN [ node |-> "trade_management", position_status |-> None,
           stop_adjusted |-> FALSE, new_stop_level |-> None ]
    ELSE
    LET position_status == calculate_position_status(cfg)
    IN  IF position_status.is_breakeven_eligible
        THEN [ node |-> "trade_management", position_status |-> position_status,
               stop_adjusted |-> TRUE, new_stop_level |-> adjust_to_breakeven(cfg) ]
        ELSE IF position_status.position_status = "winning"
        THEN [ node |-> "trade_management", position_status |-> position_status,
               stop_adjusted |-> calculate_trailing_stop(cfg) # cfg.open_position.stop_loss,
               new_stop_level |-> calculate_trailing_stop(cfg) ]
        ELSE [ node |-> "trade_management", position_status |-> position_status,
               stop_adjusted |-> FALSE, new_stop_level |-> None ]

\* ------------------------------------------------------------------------
\* ExitExecution (agents/exit_execution.py)
\* A config is [open_position, current_price, exit_reason,
\*              exit_signal_detected, hummingbot_client].
\* ------------------------------------------------------------------------
\* An exit at the current price, whatever the band.
determine_exit_price_unclamped(cfg) ==
    cfg.current_price

determine_exit_price(cfg) ==
    LET take_profit == cfg.open_position.take_profit
        stop_loss == cfg.open_position.stop_loss
        exit_price == IF cfg.open_position.entry_type = "long"
                      THEN Max(stop_loss, Min(cfg.current_price, take_profit))
                      ELSE Min(stop_loss, Max(cfg.current_price, take_profit))
    IN  IF exit_price > 0 THEN exit_price ELSE cfg.current_price

\* A resolution that looks at the exit-signal flag before the price levels.
determine_exit_reason_signal_first(cfg, exit_price) ==
    IF cfg.exit_reason # "manual" THEN cfg.exit_reason
    ELSE IF cfg.exit_signal_detected THEN "Exit Signal - Technical Reversal"
    ELSE IF cfg.open_position.take_profit > 0
            /\ Abs(exit_price - cfg.open_position.take_profit) < 1
    THEN "Take Profit Hit"
    ELSE IF cfg.open_position.stop_loss > 0
            /\ Abs(exit_price - cfg.open_position.stop_loss) < 1
    THEN "Stop Loss Hit"
    ELSE "Manual Exit"

\* abs(exit_price - level) < 0.01 on prices quoted in whole cents
determine_exit_reason(cfg, exit_price) ==
    IF cfg.exit_reason # "manual" THEN cfg.exit_reason
    ELSE IF cfg.open_position.take_profit > 0
            /\ Abs(exit_price - cfg.open_position.take_profit) < 1
    THEN "Take Profit Hit"
    ELSE IF cfg.open_position.stop_loss > 0
            /\ Abs(exit_price - cfg.open_position.stop_loss) < 1
    THEN "Stop Loss Hit"
    ELSE IF cfg.exit_signal_detected THEN "Exit Signal - Technical Reversal"
    ELSE "Manual Exit"

\* A result computed as for a long whatever the direction.
calculate_trade_result_as_long(cfg, exit_price) ==
    LET entry_price == cfg.open_position.entry_price
        position_size == cfg.open_position.position_size
        entry_type == cfg.open_position.entry_type
        move == exit_price - entry_price
        sign == IF move >= 0 THEN 1 ELSE 0 - 1
    IN  IF entry_price <= 0 \/ position_size <= 0 \/ exit_price <= 0 THEN None
        ELSE [ trade_id |-> cfg.open_position.trade_id,
               entry_price |-> entry_price,
               exit_price |-> exit_price,
               position_size |-> position_size,
               entry_type |-> entry_type,
               exit_reason |-> determine_exit_reason(cfg, exit_price),
               gross_pnl |-> sign * MulDivRound(position_size, Abs(move), 10000),
               pnl_percent |-> sign * MulDivRound(Abs(move), 10000, entry_price) ]

calculate_trade_result(cfg, exit_price) ==
    LET entry_price == cfg.open_position.entry_price
        position_size == cfg.open_position.position_size
        entry_type == cfg.open_position.entry_type
        move == IF entry_type = "long" THEN exit_price - entry_price
                ELSE entry_price - exit_price
        sign == IF move >= 0 THEN 1 ELSE 0 - 1
    IN  IF entry_price <= 0 \/ position_size <= 0 \/ exit_price <= 0 THEN None
        ELSE [ trade_id |-> cfg.open_position.trade_id,
               entry_price |-> entry_price,
               exit_price |-> exit_price,
               position_size |-> position_size,
               entry_type |-> entry_type,
               exit_reason |-> determine_exit_reason(cfg, exit_price),
               \* round(move * position_size, 2), in cents
               gross_pnl |-> sign * MulDivRound(position_size, Abs(move), 10000),
               \* round(move / entry_price * 100, 2), in 1/100 percent
               pnl_percent |-> sign * MulDivRound(Abs(move), 10000, entry_price) ]

place_exit_order(cfg, trade_result, order) ==
    IF ~cfg.hummingbot_client THEN None
    ELSE place_order(cfg.hummingbot_client, order)

ExitFailed(msg) ==
    [ node |-> "exit_execution", exit_successful |-> FALSE,
      trade_result |-> None, exit_message |-> msg ]

ExitExecution_execute(cfg, order) ==
    IF cfg.open_position = None THEN ExitFailed("No open position to exit")
    ELSE
    LET exit_price == determine_exit_price(cfg)
        trade_result == calculate_trade_result(cfg, exit_price)
    IN  IF trade_result = None THEN ExitFailed("Trade result calculation failed")
        ELSE IF place_exit_order(cfg, trade_result, order) = None
        THEN ExitFailed("Failed to place exit order")
        ELSE [ node |-> "exit_execution", exit_successful |-> TRUE,
               trade_result |-> trade_result,
               exit_message |-> "Position closed" ]

\* ------------------------------------------------------------------------
\* Inputs (cents)
\* ------------------------------------------------------------------------
\* stop and target prices of a setup; 0 is a missing price
SetupPrices == {0, 9000, 9500, 10000, 10500, 11000}

\* ideal entry price of a setup
IdealPrices == {0, 10000}

\* current price read at entry (only used when the setup has no ideal entry)
EntryPrices == {0, 10000}

\* current price at a manage() call
ManagePrices == {8900, 9950, 10010, 10050, 10100}

\* current price at close; 0 is a failed price fetch with no stored price
ExitPrices == {0, 8900, 10050, 11100}

Balances == {0, 100013, 1000000, 10000000, 20000000}

RiskLimits == {25000, 50000}

Directions == {"long", "short", "sideways"}

AdapterAnswers == {"ok", "none", "raise"}

Setups ==
    {None} \cup
    [ direction : Directions, has_ideal : {TRUE}, ideal : IdealPrices,
      stop : SetupPrices, target : SetupPrices ] \cup
    [ direction : {"long"}, has_ideal : {FALSE}, ideal : {0},
      stop : {9500}, target : {11000} ]

\* ------------------------------------------------------------------------
\* Pipeline state (graph.py, TradingState) and the driver's position
\* ------------------------------------------------------------------------
VARIABLES
    pc,              \* the node the graph runs next
    account_balance, \* state["account_balance"]
    positions,       \* state["positions"]: [active, rec, current, trade_result]
    open_position,   \* state["market_data"]["open_position"]
    pnl,             \* state["pnl"], session pnl in cents
    entry_cfg,       \* config the EntryExecution agent was built with
    cfg,             \* config of the agent that ran last
    result,          \* output of the agent that ran last
    orders,          \* orders submitted to the execution adapter, in order
    nManage          \* number of manage() calls made on the position

vars == << pc, account_balance, positions, open_position, pnl, entry_cfg,
           cfg, result, orders, nManage >>

Init ==
    /\ pc = "entry_execution"
    /\ account_balance \in Balances
    /\ positions = [active |-> FALSE, rec |-> None, current |-> None,
                    trade_result |-> None]
    /\ open_position = None
    /\ pnl = 0
    /\ entry_cfg = None
    /\ cfg = None
    /\ result = None
    /\ orders = << >>
    /\ nManage = 0

\* What the adapter sees of a place_order call (utils/hummingbot.py:463-470).
SubmittedOrder(side, quantity, price, answer) ==
    [ side |-> side, is_buy |-> (side = "buy"), quantity |-> quantity,
      price |-> price, answer |-> answer ]

route_entry_to_management(ps) ==
    IF ps.active THEN "trade_management" ELSE "exit_execution"

entry_execution_node ==
    /\ pc = "entry_execution"
    /\ \E best_setup \in Setups, limit \in RiskLimits, price \in EntryPrices,
          bias \in {"neutral", "long"}, client \in BOOLEAN, answer \in AdapterAnswers :
        LET c == [ best_setup |-> best_setup,
                   account_balance |-> account_balance,
                   position_size_limit |-> limit,
                   current_price |-> price,
                   entry_bias |-> bias,
                   hummingbot_client |-> client ]
            r == EntryExecution_execute(c, answer)
            size == calculate_position_size(c)
            \* the order reaches the adapter iff execute() got as far as
            \* _place_entry_order with a client
            placed == /\ best_setup # None
                      /\ size.num > 0
                      /\ validate_position(c, create_position(c, size))
                      /\ client
        IN  \* inputs the agent does not read are fixed
            /\ (best_setup # None /\ ~best_setup.has_ideal) \/ price = 0
            /\ (best_setup # None /\ best_setup.direction = "sideways") \/ bias = "neutral"
            /\ client \/ answer = "none"
            /\ entry_cfg' = c
            /\ cfg' = c
            /\ result' = r
            /\ orders' = IF placed
                         THEN Append(orders,
                                SubmittedOrder(create_position(c, size).entry_type,
                                               create_position(c, size).position_size,
                                               create_position(c, size).entry_price,
                                               answer))
                         ELSE orders
            /\ IF r.entry_successful /\ r.trade_position # None
               THEN /\ positions' = [ active |-> TRUE, rec |-> r.trade_position,
                                      current |-> None, trade_result |-> None ]
                    /\ open_position' = r.trade_position
               ELSE /\ positions' = [positions EXCEPT !.active = FALSE]
                    /\ UNCHANGED open_position
            /\ pc' = route_entry_to_management(positions')
    /\ UNCHANGED << account_balance, pnl, nManage >>

ManageSignals ==
    { [momentum |-> "weak", rsi |-> 50, divergence_detected |-> FALSE],
      [momentum |-> "strong_down", rsi |-> 90, divergence_detected |-> FALSE] }

\* One manage() call.  The graph runs the node once per run; the lifecycle
\* of spec section 4.5 calls manage() repeatedly, so the node may be run
\* again (at most MaxManage times) before the exit.
trade_management_node ==
    /\ pc = "trade_management"
    /\ nManage < MaxManage
    /\ \E price \in ManagePrices, sig \in ManageSignals, again \in BOOLEAN :
        LET c == [ open_position |-> IF positions.active THEN open_position ELSE None,
                   current_price |-> price,
                   momentum |-> sig.momentum,
                   rsi |-> sig.rsi,
                   divergence_detected |-> sig.divergence_detected ]
            r == TradeManagement_execute(c)
        IN  /\ cfg' = c
            /\ result' = r
            /\ positions' =
                 IF r.position_status # None /\ positions.active
                 THEN [ positions EXCEPT
                          !.current = [ current_pnl |-> r.position_status.current_pnl,
                                        current_pnl_percent |->
                                            r.position_status.current_pnl_percent ],
                          !.rec = IF r.stop_adjusted /\ r.new_stop_level # 0
                                  THEN [positions.rec EXCEPT !.stop_loss = r.new_stop_level]
                                  ELSE positions.rec ]
                 ELSE positions
            /\ nManage' = nManage + 1
            /\ pc' = IF again /\ nManage' < MaxManage THEN "trade_management"
                     ELSE "exit_execution"
    /\ UNCHANGED << account_balance, open_position, pnl, entry_cfg, orders >>

\* The caller of manage() writes the stop it has been returned into the
\* position record it hands to the next call ("stop_loss may be mutated in
\* place", spec section 3).  The graph itself never does this.
ApplyStop ==
    /\ pc \in {"trade_management", "exit_execution"}
    /\ positions.active
    /\ open_position.stop_loss # positions.rec.stop_loss
    /\ open_position' = [open_position EXCEPT !.stop_loss = positions.rec.stop_loss]
    /\ UNCHANGED << pc, account_balance, positions, pnl, entry_cfg, cfg, result,
                    orders, nManage >>

ExitReasons == {"manual", "Session End"}

\* A session pnl that books the percentage return of the trade.
update_session_pnl_percent(session_pnl, trade_result) ==
    session_pnl + trade_result.pnl_percent

\* state["pnl"] += trade_result["gross_pnl"]
update_session_pnl(session_pnl, trade_result) ==
    session_pnl + trade_result.gross_pnl

exit_execution_node ==
    /\ pc = "exit_execution"
    /\ \E price \in ExitPrices, reason \in ExitReasons, signal \in BOOLEAN,
          client \in BOOLEAN, answer \in AdapterAnswers :
        LET c == [ open_position |-> IF positions.active THEN open_position ELSE None,
                   current_price |-> price,
                   exit_reason |-> reason,
                   exit_signal_detected |-> signal,
                   hummingbot_client |-> client ]
            r == ExitExecution_execute(c, answer)
            tr == IF c.open_position = None THEN None
                  ELSE calculate_trade_result(c, determine_exit_price(c))
            placed == tr # None /\ client
        IN  \* inputs the agent does not read are fixed
            /\ client \/ answer = "none"
            /\ ~signal \/ reason = "manual"
            /\ c.open_position # None
                 \/ (price = 0 /\ reason = "manual" /\ ~signal /\ ~client)
            /\ cfg' = c
            /\ result' = r
            /\ orders' = IF placed
                         THEN Append(orders,
                                SubmittedOrder(IF c.open_position.entry_type = "long"
                                               THEN "sell" ELSE "buy",
                                               tr.position_size, tr.exit_price, answer))
                         ELSE orders
            /\ IF r.exit_successful /\ r.trade_result # None
               THEN /\ positions' = [positions EXCEPT !.active = FALSE,
                                                      !.trade_result = r.trade_result]
                    /\ pnl' = update_session_pnl(pnl, r.trade_result)
               ELSE /\ positions' = [positions EXCEPT !.active = FALSE]
                    /\ UNCHANGED pnl
            /\ pc' = "END"
    /\ UNCHANGED << account_balance, open_position, entry_cfg, nManage >>

Next ==
    \/ entry_execution_node
    \/ trade_management_node
    \/ ApplyStop
    \/ exit_execution_node

Spec == Init /\ [][Next]_vars

\* ========================================================================
\* Properties
\* ========================================================================

\* C1 (as stated) - while a position is open, a long has
\* stop_loss < entry_price < take_profit and a short has
\* take_profit < entry_price < stop_loss, strictly, also after every stop
\* adjustment made by manage().
C1_StrictOrdering ==
    positions.active =>
        /\ positions.rec.entry_type = "long" =>
              /\ positions.rec.stop_loss < positions.rec.entry_price
              /\ positions.rec.entry_price < positions.rec.take_profit
        /\ positions.rec.entry_type = "short" =>
              /\ positions.rec.take_profit < positions.rec.entry_price
              /\ positions.rec.entry_price < positions.rec.stop_loss

\* C1 (amended) - while a position is open, a long has
\* stop_loss <= entry_price < take_profit and a short has
\* take_profit < entry_price <= stop_loss, in the stored position and in the
\* record handed to manage() and close(); the stop is strictly on its side
\* of the entry until manage() has adjusted it (the breakeven rule puts it
\* on the entry price).
C1_Ordering ==
    positions.active =>
        /\ \A p \in {positions.rec, open_position} :
              /\ p.entry_type = "long" =>
                    /\ p.stop_loss <= p.entry_price
                    /\ p.entry_price < p.take_profit
              /\ p.entry_type = "short" =>
                    /\ p.take_profit < p.entry_price
                    /\ p.entry_price <= p.stop_loss
        /\ (nManage = 0 /\ positions.rec.entry_type \in {"long", "short"}) =>
              positions.rec.stop_loss # positions.rec.entry_price

\* C1 witness - an open long whose stop manage() has moved onto the entry.
C1_Witness ==
    /\ positions.active
    /\ nManage >= 1
    /\ positions.rec.entry_type = "long"
    /\ result.node = "trade_management"
    /\ result.stop_adjusted
    /\ positions.rec.stop_loss = positions.rec.entry_price

\* C2 - when the record handed to manage() carries the latest stop, the
\* stop that results from the call is never looser: not lower for a long,
\* not higher for a short, from the breakeven rule and from the trailing
\* rule alike.
C2_StopNeverLoosens ==
    [][ ( /\ positions.active
          /\ open_position.stop_loss = positions.rec.stop_loss )
        => /\ positions.rec.entry_type = "long" =>
                 positions'.rec.stop_loss >= positions.rec.stop_loss
           /\ positions.rec.entry_type = "short" =>
                 positions'.rec.stop_loss <= positions.rec.stop_loss ]_vars

\* C2 witness - a long whose stop was raised by a first call, applied, and
\* raised again by a second call.
C2_Witness ==
    /\ positions.active
    /\ nManage = 2
    /\ positions.rec.entry_type = "long"
    /\ open_position.stop_loss > entry_cfg.best_setup.stop
    /\ positions.rec.stop_loss > open_position.stop_loss

\* C3 - the move to breakeven is one-time: once the stop of the record
\* handed to manage() equals the entry price, a call with PnL% >= 1.0
\* reports no stop adjustment.
C3_BreakevenOneTime ==
    [][ ( /\ pc = "trade_management"
          /\ positions.active
          /\ open_position.stop_loss = open_position.entry_price
          /\ nManage' = nManage + 1
          /\ result'.position_status.is_breakeven_eligible )
        => ~result'.stop_adjusted ]_vars

\* C4 - the lifecycle (NONE: no active position and no trade result, OPEN:
\* active, CLOSED: a trade result is stored) only moves NONE -> OPEN by a
\* successful open and OPEN -> CLOSED by a successful close of the position
\* that was opened, and a stored trade result never changes.
C4_LifecycleTransitions ==
    [][ LET life == IF positions.trade_result # None THEN "CLOSED"
                    ELSE IF positions.active THEN "OPEN" ELSE "NONE"
            life2 == IF positions'.trade_result # None THEN "CLOSED"
                     ELSE IF positions'.active THEN "OPEN" ELSE "NONE"
        IN  /\ \/ life2 = life
               \/ /\ life = "NONE" /\ life2 = "OPEN"
                  /\ result'.entry_successful
               \/ /\ life = "OPEN" /\ life2 = "CLOSED"
                  /\ result'.exit_successful
                  /\ positions'.trade_result.trade_id = open_position.trade_id
            /\ positions.trade_result # None =>
                  positions'.trade_result = positions.trade_result ]_vars

\* C5 - when the adapter fails on the entry order (falsy answer or
\* exception), the entry reports a failed result with no trade position,
\* and neither then nor later in the run is there an active position, a
\* stored position record, an open-position record or any pnl.
C5_AdapterFailureAborts ==
    (Len(orders) >= 1 /\ orders[1].answer # "ok") =>
        /\ ~positions.active
        /\ positions.rec = None
        /\ open_position = None
        /\ pnl = 0
        /\ result.node = "entry_execution" =>
              /\ ~result.entry_successful
              /\ result.trade_position = None
              /\ result.execution_message = "Failed to place entry order"

\* C5 witness - the entry has just run and the adapter raised on its order.
C5_Witness ==
    /\ result # None
    /\ result.node = "entry_execution"
    /\ Len(orders) = 1
    /\ orders[1].answer = "raise"
    /\ pc = "exit_execution"

\* C6 - open() is rejected (entry_successful false, no position, lifecycle
\* still NONE) whenever entry <= 0, stop <= 0, the computed size <= 0, the
\* stop/entry/target ordering of the position's direction is violated, or
\* the position value exceeds the balance.
C6_OpenRejects ==
    (result # None /\ result.node = "entry_execution" /\ entry_cfg.best_setup # None) =>
        LET st == entry_cfg.best_setup
            entry == IF st.has_ideal THEN st.ideal ELSE entry_cfg.current_price
            dir == IF st.direction \in {"long", "short"} THEN st.direction
                   ELSE entry_cfg.entry_bias
            size == calculate_position_size(entry_cfg)
        IN  ( \/ entry <= 0
              \/ st.stop <= 0
              \/ size.num <= 0
              \/ MulDivRound(size.num, 10000, size.den) <= 0
              \/ dir = "long" /\ ~(st.stop < entry /\ entry < st.target)
              \/ dir = "short" /\ ~(st.target < entry /\ entry < st.stop)
              \/ MulDivRound(size.num, entry, size.den) > entry_cfg.account_balance )
            => /\ ~result.entry_successful
               /\ result.trade_position = None
               /\ ~positions.active
               /\ positions.trade_result = None

\* C6 witness - a long setup with a positive size, a working adapter and a
\* stop below the entry, rejected because its target is not above the entry.
C6_Witness ==
    /\ result # None
    /\ result.node = "entry_execution"
    /\ entry_cfg.best_setup # None
    /\ entry_cfg.hummingbot_client
    /\ entry_cfg.best_setup.direction = "long"
    /\ entry_cfg.best_setup.ideal = 10000
    /\ entry_cfg.best_setup.stop = 9500
    /\ entry_cfg.best_setup.target = 9000
    /\ calculate_position_size(entry_cfg).num > 0
    /\ result.execution_message = "Position validation failed"
    /\ ~positions.active

\* C7 - every position produced by open() has a position value no greater
\* than 5% of the account balance.
C7_ValueWithinFivePercent ==
    positions.active => 20 * positions.rec.position_value <= account_balance

\* C8 (as stated) - a long opened at entry 100, stop 95, target 110 with a
\* risk budget of 500 has size 100, and its close at exit price 110 has
\* gross_pnl 1000 and pnl_percent 10.0.
C8_LongRoundTrip ==
    ( /\ entry_cfg # None
      /\ entry_cfg.best_setup = [ direction |-> "long", has_ideal |-> TRUE,
                                  ideal |-> 10000, stop |-> 9500, target |-> 11000 ]
      /\ entry_cfg.position_size_limit = 50000
      /\ positions.rec # None )
    => /\ positions.rec.position_size = 1000000
       /\ ( positions.trade_result # None
            /\ positions.trade_result.exit_price = 11000 )
          => /\ positions.trade_result.gross_pnl = 100000
             /\ positions.trade_result.pnl_percent = 1000

\* C8 (amended) - the same round trip with an account balance of at least
\* 200000, so that the position value 10000 is within the 5% cap: size 100,
\* and closed at exit price 110, gross_pnl 1000 and pnl_percent 10.0.
C8_LongRoundTripUncapped ==
    ( /\ entry_cfg # None
      /\ entry_cfg.best_setup = [ direction |-> "long", has_ideal |-> TRUE,
                                  ideal |-> 10000, stop |-> 9500, target |-> 11000 ]
      /\ entry_cfg.position_size_limit = 50000
      /\ account_balance >= 20000000
      /\ positions.rec # None )
    => /\ positions.rec.position_size = 1000000
       /\ ( positions.trade_result # None
            /\ positions.trade_result.exit_price = 11000 )
          => /\ positions.trade_result.gross_pnl = 100000
             /\ positions.trade_result.pnl_percent = 1000

\* C8 witness - that long, opened with balance 200000 and closed at 110.
C8_Witness ==
    /\ entry_cfg # None
    /\ entry_cfg.best_setup = [ direction |-> "long", has_ideal |-> TRUE,
                                ideal |-> 10000, stop |-> 9500, target |-> 11000 ]
    /\ entry_cfg.position_size_limit = 50000
    /\ account_balance = 20000000
    /\ positions.trade_result # None
    /\ positions.trade_result.position_size = 1000000
    /\ positions.trade_result.exit_price = 11000
    /\ pnl = 100000

\* C9 (as stated) - a short opened at entry 100, stop 105, target 90 with a
\* risk budget of 250 has size 50, and its close at exit price 90 has
\* gross_pnl 500 and pnl_percent 10.0.
C9_ShortRoundTrip ==
    ( /\ entry_cfg # None
      /\ entry_cfg.best_setup = [ direction |-> "short", has_ideal |-> TRUE,
                                  ideal |-> 10000, stop |-> 10500, target |-> 9000 ]
      /\ entry_cfg.position_size_limit = 25000
      /\ positions.rec # None )
    => /\ positions.rec.position_size = 500000
       /\ ( positions.trade_result # None
            /\ positions.trade_result.exit_price = 9000 )
          => /\ positions.trade_result.gross_pnl = 50000
             /\ positions.trade_result.pnl_percent = 1000

\* C9 (amended) - the same round trip with an account balance of at least
\* 100000, so that the position value 5000 is within the 5% cap: size 50,
\* and closed at exit price 90, gross_pnl 500 and pnl_percent 10.0.
C9_ShortRoundTripUncapped ==
    ( /\ entry_cfg # None
      /\ entry_cfg.best_setup = [ direction |-> "short", has_ideal |-> TRUE,
                                  ideal |-> 10000, stop |-> 10500, target |-> 9000 ]
      /\ entry_cfg.position_size_limit = 25000
      /\ account_balance >= 10000000
      /\ positions.rec # None )
    => /\ positions.rec.position_size = 500000
       /\ ( positions.trade_result # None
            /\ positions.trade_result.exit_price = 9000 )
          => /\ positions.trade_result.gross_pnl = 50000
             /\ positions.trade_result.pnl_percent = 1000

\* C9 witness - that short, opened with balance 100000 and closed at 90.
C9_Witness ==
    /\ entry_cfg # None
    /\ entry_cfg.best_setup = [ direction |-> "short", has_ideal |-> TRUE,
                                ideal |-> 10000, stop |-> 10500, target |-> 9000 ]
    /\ entry_cfg.position_size_limit = 25000
    /\ account_balance = 10000000
    /\ positions.trade_result # None
    /\ positions.trade_result.position_size = 500000
    /\ positions.trade_result.exit_price = 9000
    /\ pnl = 50000

\* C10 - the exit price of a close lies in the stop/target band of the
\* position handed to it: stop_loss <= exit <= take_profit for a long (the
\* target when the current price is above it, the stop when it is below),
\* take_profit <= exit <= stop_loss for a short; this holds of the result
\* of a successful close and of the price of every exit order submitted.
C10_ExitPriceClamped ==
    (result # None /\ result.node = "exit_execution" /\ cfg.open_position # None) =>
        LET p == cfg.open_position
            InBand(x) ==
                /\ p.entry_type = "long" =>
                      /\ p.stop_loss <= x /\ x <= p.take_profit
                      /\ cfg.current_price > p.take_profit => x = p.take_profit
                      /\ cfg.current_price < p.stop_loss => x = p.stop_loss
                /\ p.entry_type = "short" =>
                      /\ p.take_profit <= x /\ x <= p.stop_loss
                      /\ cfg.current_price < p.take_profit => x = p.take_profit
                      /\ cfg.current_price > p.stop_loss => x = p.stop_loss
        IN  /\ result.exit_successful => InBand(result.trade_result.exit_price)
            /\ (Len(orders) = 2 /\ cfg.hummingbot_client) => InBand(orders[2].price)

\* C10 witness - a long closed with the current price above its target.
C10_Witness ==
    /\ result # None
    /\ result.node = "exit_execution"
    /\ result.exit_successful
    /\ cfg.open_position.entry_type = "long"
    /\ cfg.current_price > cfg.open_position.take_profit
    /\ result.trade_result.exit_price = cfg.open_position.take_profit

\* C11 - the exit reason of a close is resolved by strict priority: a
\* supplied reason other than "manual" is returned as it is; otherwise an
\* exit price within 0.01 of take_profit gives "Take Profit Hit", also when
\* an exit signal is flagged; otherwise an exit price within 0.01 of
\* stop_loss gives "Stop Loss Hit"; otherwise a flagged exit signal gives
\* the exit-signal reason; otherwise the reason is "Manual Exit".
C11_ExitReasonPriority ==
    ( /\ result # None
      /\ result.node = "exit_execution"
      /\ result.exit_successful ) =>
        LET p == cfg.open_position
            x == result.trade_result.exit_price
            reason == result.trade_result.exit_reason
        IN  /\ cfg.exit_reason # "manual" => reason = cfg.exit_reason
            /\ cfg.exit_reason = "manual" =>
                  /\ Abs(x - p.take_profit) < 1 => reason = "Take Profit Hit"
                  /\ (Abs(x - p.take_profit) >= 1 /\ Abs(x - p.stop_loss) < 1)
                        => reason = "Stop Loss Hit"
                  /\ (Abs(x - p.take_profit) >= 1 /\ Abs(x - p.stop_loss) >= 1)
                        => reason = IF cfg.exit_signal_detected
                                    THEN "Exit Signal - Technical Reversal"
                                    ELSE "Manual Exit"

\* C11 witness - a long closed at its target with an exit signal flagged
\* and no supplied reason: the reason is the take-profit one.
C11_Witness ==
    /\ result # None
    /\ result.node = "exit_execution"
    /\ result.exit_successful
    /\ cfg.exit_reason = "manual"
    /\ cfg.exit_signal_detected
    /\ cfg.open_position.entry_type = "long"
    /\ result.trade_result.exit_price = cfg.open_position.take_profit
    /\ result.trade_result.exit_reason = "Take Profit Hit"

\* C12 - execute() given a valid setup (positive size, position passing
\* validation) and no execution client configured completes with
\* entry_successful true and a trade position.
C12_EntryWithoutClient ==
    ( /\ result # None
      /\ result.node = "entry_execution"
      /\ entry_cfg.best_setup # None
      /\ calculate_position_size(entry_cfg).num > 0
      /\ validate_position(entry_cfg,
                           create_position(entry_cfg, calculate_position_size(entry_cfg)))
      /\ ~entry_cfg.hummingbot_client )
    => /\ result.entry_successful
       /\ result.trade_position # None

\* ========================================================================
\* Analytical agents.  Each agent is built with a config and its execute()
\* is called once; cfg holds the config, result the output.  An exception
\* leaving execute() is the result [raised |-> <exception>].
\* ========================================================================
Raised(exception) == [raised |-> exception]

\* the inputs of the position lifecycle, not used by the analytical agents
IdleLifecycle ==
    /\ account_balance = 1000000
    /\ positions = [active |-> FALSE, rec |-> None, current |-> None,
                    trade_result |-> None]
    /\ open_position = None
    /\ pnl = 0
    /\ entry_cfg = None
    /\ orders = << >>
    /\ nManage = 0

\* sorted(zones, key=level): insertion of z into an ascending sequence,
\* after the elements with the same key
RECURSIVE InsertByLevel(_, _)
InsertByLevel(zs, z) ==
    IF zs = << >> THEN << z >>
    ELSE IF zs[Len(zs)].level <= z.level THEN Append(zs, z)
    ELSE Append(InsertByLevel(SubSeq(zs, 1, Len(zs) - 1), z), zs[Len(zs)])

RECURSIVE SortedByLevel(_)
SortedByLevel(zs) ==
    IF zs = << >> THEN << >>
    ELSE InsertByLevel(SortedByLevel(SubSeq(zs, 1, Len(zs) - 1)), zs[Len(zs)])

\* seq[-k:]
LastK(seq, k) ==
    IF Len(seq) <= k THEN seq ELSE SubSeq(seq, Len(seq) - k + 1, Len(seq))

\* ------------------------------------------------------------------------
\* MarketStructure (agents/market_structure.py)
\* A config is [ohlc_data, current_price, min_swing_bars,
\* sr_zone_thickness_pct]; ohlc_data is a sequence of bars [high, low,
\* close] in cents, sr_zone_thickness_pct is in 1/100 percent.  Bar indices
\* are reported 0-based as in the code.
\* ------------------------------------------------------------------------
\* numpy.take(..., mode="clip") on a position of a sequence of length n
ClipIndex(i, n) == Max(1, Min(n, i))

\* scipy.signal.argrelextrema(values, comparator, order): position i is an
\* extremum iff values[i] compares strictly with the values at i - s and
\* i + s for every shift s in 1..order, positions past the ends being
\* clipped to the first and last element.
argrelextrema(values, greater, order) ==
    { i \in 1..Len(values) :
        \A s \in 1..order :
            LET plus == values[ClipIndex(i + s, Len(values))]
                minus == values[ClipIndex(i - s, Len(values))]
            IN  IF greater THEN values[i] > plus /\ values[i] > minus
                ELSE values[i] < plus /\ values[i] < minus }

\* the list [{"index": idx, "price": values[idx]} for idx in indices],
\* indices ascending, taken from position i on
RECURSIVE SwingList(_, _, _)
SwingList(values, indices, i) ==
    IF i > Len(values) THEN << >>
    ELSE IF i \in indices
    THEN << [index |-> i - 1, price |-> values[i]] >> \o SwingList(values, indices, i + 1)
    ELSE SwingList(values, indices, i + 1)

detect_swing_points(c) ==
    IF Len(c.ohlc_data) < c.min_swing_bars * 2 + 1
    THEN [swing_highs |-> << >>, swing_lows |-> << >>]
    ELSE
    LET highs_array == [i \in 1..Len(c.ohlc_data) |-> c.ohlc_data[i].high]
        lows_array == [i \in 1..Len(c.ohlc_data) |-> c.ohlc_data[i].low]
    IN  [ swing_highs |-> SwingList(highs_array,
                            argrelextrema(highs_array, TRUE, c.min_swing_bars), 1),
          swing_lows |-> SwingList(lows_array,
                            argrelextrema(lows_array, FALSE, c.min_swing_bars), 1) ]

analyze_trend_structure(c) ==
    LET sw == detect_swing_points(c)
        nh == Len(sw.swing_highs)
        nl == Len(sw.swing_lows)
    IN  IF Len(c.ohlc_data) < 5 THEN "sideways"
        ELSE IF nh < 2 \/ nl < 2 THEN "sideways"
        ELSE IF /\ sw.swing_highs[nh].price > sw.swing_highs[nh - 1].price
                /\ sw.swing_lows[nl].price > sw.swing_lows[nl - 1].price
        THEN "uptrend"
        ELSE IF /\ sw.swing_highs[nh].price < sw.swing_highs[nh - 1].price
                /\ sw.swing_lows[nl].price < sw.swing_lows[nl - 1].price
        THEN "downtrend"
        ELSE "sideways"

\* A count of the closes that fall outside the band.
count_touches_outside(c, level, thickness) ==
    Cardinality({ i \in 1..Len(c.ohlc_data) :
        \/ c.ohlc_data[i].close * 10000 < level * 10000 - thickness
        \/ c.ohlc_data[i].close * 10000 > level * 10000 + thickness })

\* thickness is the zone half-width level * (sr_zone_thickness_pct / 100),
\* in 1/10000 cent
count_touches(c, level, thickness) ==
    Cardinality({ i \in 1..Len(c.ohlc_data) :
        /\ c.ohlc_data[i].close * 10000 >= level * 10000 - thickness
        /\ c.ohlc_data[i].close * 10000 <= level * 10000 + thickness })

calculate_zones(c, swing_points, zone_type) ==
    LET last5 == LastK(swing_points, 5)
        zone(point) ==
            LET level == point.price
                zone_thickness == level * c.sr_zone_thickness_pct
                touches == count_touches(c, level, zone_thickness)
            IN  [ level |-> level,
                  strength |-> Min(10, 3 + touches),
                  type |-> IF zone_type = "support" THEN "swing_suppor"
                           ELSE "swing_resistanc",
                  touches |-> touches,
                  zone_range |-> << MulDivRound(level * 10000 - zone_thickness, 1, 10000),
                                    MulDivRound(level * 10000 + zone_thickness, 1, 10000) >> ]
    IN  SortedByLevel([i \in 1..Len(last5) |-> zone(last5[i])])

get_prior_session_levels(c) ==
    IF Len(c.ohlc_data) < 2 THEN [high |-> 0, low |-> 0, close |-> 0]
    ELSE LET prior == c.ohlc_data[Len(c.ohlc_data) - 1]
         IN  [high |-> prior.high, low |-> prior.low, close |-> prior.close]

\* distances in 1/100 percent
calculate_current_context(c, support_zones, resistance_zones) ==
    LET nearest_support == IF support_zones # << >>
                           THEN support_zones[Len(support_zones)].level ELSE 0
        nearest_resistance == IF resistance_zones # << >>
                              THEN resistance_zones[1].level ELSE 0
        pct(d) == IF d >= 0 THEN MulDivRound(d, 10000, c.current_price)
                  ELSE 0 - MulDivRound(0 - d, 10000, c.current_price)
    IN  [ price_location |->
              IF nearest_resistance > 0 /\ c.current_price * 100 >= nearest_resistance * 99
              THEN "at_resistance"
              ELSE IF nearest_support > 0 /\ c.current_price * 100 <= nearest_support * 101
              THEN "at_support"
              ELSE IF nearest_support > 0 /\ nearest_resistance > 0 THEN "in_range"
              ELSE "breakout",
          nearest_resistance |-> nearest_resistance,
          nearest_support |-> nearest_support,
          distance_to_resistance_pct |->
              IF c.current_price > 0 /\ nearest_resistance > 0
              THEN pct(nearest_resistance - c.current_price) ELSE 0,
          distance_to_support_pct |->
              IF c.current_price > 0 /\ nearest_support > 0
              THEN pct(c.current_price - nearest_support) ELSE 0 ]

empty_output ==
    [ node |-> "market_structure",
      analysis_complete |-> FALSE,
      structural_framework |->
          [ trend_structure |-> "sideways", resistance_zones |-> << >>,
            support_zones |-> << >>,
            prior_session |-> [high |-> 0, low |-> 0, close |-> 0] ],
      current_context |->
          [ price_location |-> "unknown", nearest_resistance |-> 0,
            nearest_support |-> 0, distance_to_resistance_pct |-> 0,
            distance_to_support_pct |-> 0 ] ]

MarketStructure_execute(c) ==
    IF c.ohlc_data = << >> \/ c.current_price <= 0 THEN empty_output
    ELSE
    LET sw == detect_swing_points(c)
        support_zones == calculate_zones(c, sw.swing_lows, "support")
        resistance_zones == calculate_zones(c, sw.swing_highs, "resistance")
    IN  [ node |-> "market_structure",
          analysis_complete |-> TRUE,
          structural_framework |->
              [ trend_structure |-> analyze_trend_structure(c),
                resistance_zones |-> resistance_zones,
                support_zones |-> support_zones,
                prior_session |-> get_prior_session_levels(c) ],
          current_context |->
              calculate_current_context(c, support_zones, resistance_zones) ]

\* Inputs of MarketStructure (cents)
MaxOhlcBars == 5

\* an inside bar, a higher bar, an outside bar (higher high and lower low
\* than the others) and a lower bar
OhlcBars ==
    { [high |-> 1010, low |-> 990, close |-> 1000],
      [high |-> 1020, low |-> 1000, close |-> 1015],
      [high |-> 1040, low |-> 970, close |-> 1004],
      [high |-> 1000, low |-> 980, close |-> 985] }

OhlcHistories == UNION { [1..n -> OhlcBars] : n \in 0..MaxOhlcBars }

SwingWindows == {1, 2, 3}

ZoneThicknesses == {50, 200}

\* 1015 lies between the swing levels 1010 and 1020
StructurePrices == {0, 1000, 1015, 1040}

MarketStructureConfigs ==
    [ ohlc_data : OhlcHistories, current_price : StructurePrices,
      min_swing_bars : SwingWindows, sr_zone_thickness_pct : ZoneThicknesses ]

InitMarketStructure ==
    /\ pc = "market_structure"
    /\ cfg \in MarketStructureConfigs
    /\ result = None
    /\ IdleLifecycle

market_structure_node ==
    /\ pc = "market_structure"
    /\ result' = MarketStructure_execute(cfg)
    /\ pc' = "END"
    /\ UNCHANGED << account_balance, positions, open_position, pnl, entry_cfg,
                    cfg, orders, nManage >>

NextMarketStructure == market_structure_node

MarketStructureSpec == InitMarketStructure /\ [][NextMarketStructure]_vars

\* C14 - MarketStructure given fewer bars than swing detection requires
\* (fewer than 2*N+1 for the swing window N) or a current price <= 0
\* returns the incomplete result: completeness flag false, all zones empty,
\* price location "unknown".
C14_TooFewBarsIncomplete ==
    ( /\ pc = "END"
      /\ \/ Len(cfg.ohlc_data) < 2 * cfg.min_swing_bars + 1
         \/ cfg.current_price <= 0 )
    => /\ result.analysis_complete = FALSE
       /\ result.structural_framework.resistance_zones = << >>
       /\ result.structural_framework.support_zones = << >>
       /\ result.current_context.price_location = "unknown"

\* C15 - swing detection never reports the same bar index as a swing high
\* and as a swing low.
C15_SwingHighLowDisjoint ==
    pc = "END" =>
        LET sw == detect_swing_points(cfg)
        IN  \A i \in 1..Len(sw.swing_highs), j \in 1..Len(sw.swing_lows) :
                sw.swing_highs[i].index # sw.swing_lows[j].index

\* C16 - for a fixed zone level and a fixed bar history, the touch count
\* is monotone in thickness_pct: every zone of the analysis has, at every
\* thickness not smaller than the configured one, at least the touch count
\* (and so at least the strength) it has now.
C16_TouchCountMonotone ==
    (pc = "END" /\ result.analysis_complete) =>
        \A zones \in { result.structural_framework.support_zones,
                       result.structural_framework.resistance_zones } :
            \A k \in 1..Len(zones), wider \in ZoneThicknesses :
                wider >= cfg.sr_zone_thickness_pct =>
                    LET more == count_touches(cfg, zones[k].level,
                                              zones[k].level * wider)
                    IN  /\ more >= zones[k].touches
                        /\ Min(10, 3 + more) >= zones[k].strength

\* C16 witness - a zone whose touch count at the configured thickness is
\* smaller than its touch count at the wider one.
C16_Witness ==
    /\ pc = "END"
    /\ result.analysis_complete
    /\ cfg.sr_zone_thickness_pct = 50
    /\ \E k \in 1..Len(result.structural_framework.resistance_zones) :
          LET z == result.structural_framework.resistance_zones[k]
          IN  /\ z.touches >= 1
              /\ count_touches(cfg, z.level, z.level * 200) > z.touches

\* ------------------------------------------------------------------------
\* TrendDefinition (agents/trend_definition.py)
\* A config is [bars, htf_trend_direction]; bars is a sequence of
\* [high, low, close] in cents.  A swing is [type, price, bar_index,
\* is_leading, is_broken]; the confidence is in 1/100.
\* ------------------------------------------------------------------------
RECURSIVE identify_swings_from(_, _)
identify_swings_from(bars, i) ==
    IF i > Len(bars) - 1 THEN << >>
    ELSE
    LET current == bars[i]
        prev == bars[i - 1]
        next_bar == bars[i + 1]
        rest == identify_swings_from(bars, i + 1)
    IN  IF current.high > prev.high /\ current.high > next_bar.high
        THEN << [ type |-> "swing_high", price |-> current.high, bar_index |-> i - 1,
                  is_leading |-> FALSE, is_broken |-> FALSE ] >> \o rest
        ELSE IF current.low < prev.low /\ current.low < next_bar.low
        THEN << [ type |-> "swing_low", price |-> current.low, bar_index |-> i - 1,
                  is_leading |-> FALSE, is_broken |-> FALSE ] >> \o rest
        ELSE rest

identify_swings(c) ==
    IF Len(c.bars) < 3 THEN << >> ELSE identify_swings_from(c.bars, 2)

IsSwingHigh(s) == s.type = "swing_high"

IsSwingLow(s) == s.type = "swing_low"

\* sum(1 for i in range(1, len(points)) if points[i].price > points[i-1].price)
CountHigher(points) ==
    Cardinality({ i \in 2..Len(points) : points[i].price > points[i - 1].price })

\* sum(1 for i in range(1, len(points)) if points[i].price < points[i-1].price)
CountLower(points) ==
    Cardinality({ i \in 2..Len(points) : points[i].price < points[i - 1].price })

classify_trend(swings) ==
    LET swing_highs == SelectSeq(swings, IsSwingHigh)
        swing_lows == SelectSeq(swings, IsSwingLow)
        higher_highs == CountHigher(swing_highs)
        higher_lows == CountHigher(swing_lows)
        lower_highs == Len(swing_highs) - 1 - higher_highs
        lower_lows == Len(swing_lows) - 1 - higher_lows
        uptrend_score == higher_highs + higher_lows
        downtrend_score == lower_highs + lower_lows
    IN  IF Len(swings) < 3 THEN "sideways"
        ELSE IF Len(swing_highs) < 2 \/ Len(swing_lows) < 2 THEN "sideways"
        ELSE IF higher_highs >= 2 /\ higher_lows >= 2 THEN "uptrend"
        ELSE IF lower_highs >= 2 /\ lower_lows >= 2 THEN "downtrend"
        ELSE IF uptrend_score > downtrend_score + 1 THEN "uptrend"
        ELSE IF downtrend_score > uptrend_score + 1 THEN "downtrend"
        ELSE "sideways"

get_leading_swings(swings) ==
    LET swing_highs == SelectSeq(swings, IsSwingHigh)
        swing_lows == SelectSeq(swings, IsSwingLow)
    IN  [ leading_sh |-> IF swing_highs # << >>
                         THEN swing_highs[Len(swing_highs)].price ELSE 0,
          leading_sl |-> IF swing_lows # << >>
                         THEN swing_lows[Len(swing_lows)].price ELSE 0 ]

detect_structure_breaks(swings, trend) ==
    IF trend = "uptrend" THEN CountLower(SelectSeq(swings, IsSwingLow))
    ELSE IF trend = "downtrend" THEN CountHigher(SelectSeq(swings, IsSwingHigh))
    ELSE 0

\* the swings of one type as _detect_structure_breaks leaves them: a swing
\* that broke the structure has is_broken set
BrokenMarked(points, trend) ==
    [ i \in 1..Len(points) |->
        IF /\ i >= 2
           /\ \/ trend = "uptrend" /\ points[i].type = "swing_low"
                 /\ points[i].price < points[i - 1].price
              \/ trend = "downtrend" /\ points[i].type = "swing_high"
                 /\ points[i].price > points[i - 1].price
        THEN [points[i] EXCEPT !.is_broken = TRUE]
        ELSE points[i] ]

assess_trend_strength(c, swings, trend, structure_breaks) ==
    LET confirmed_swings == Len(SelectSeq(swings, IsSwingHigh))
                            + Len(SelectSeq(swings, IsSwingLow))
        leading == get_leading_swings(swings)
        current_price == c.bars[Len(c.bars)].close
    IN  IF trend = "sideways" THEN "weak"
        ELSE IF c.bars # << >> /\ trend = "uptrend" /\ current_price < leading.leading_sl
        THEN "reversal_warning"
        ELSE IF c.bars # << >> /\ trend = "downtrend" /\ current_price > leading.leading_sh
        THEN "reversal_warning"
        ELSE IF confirmed_swings >= 5 /\ structure_breaks = 0 THEN "strong"
        ELSE IF confirmed_swings >= 3 /\ structure_breaks <= 1 THEN "strong"
        ELSE IF confirmed_swings >= 2 /\ structure_breaks = 0 THEN "moderate"
        ELSE "weak"

\* A confidence that adds the structure bonus after the final cap.
calculate_confidence_bonus_uncapped(swings, trend) ==
    LET swing_highs == SelectSeq(swings, IsSwingHigh)
        swing_lows == SelectSeq(swings, IsSwingLow)
        confirmed_swings == Len(swing_highs) + Len(swing_lows)
        confidence == Min(confirmed_swings * 15, 95)
        bonus == IF \/ /\ trend = "uptrend"
                       /\ CountHigher(swing_highs) >= 2 /\ CountHigher(swing_lows) >= 2
                    \/ /\ trend = "downtrend"
                       /\ CountLower(swing_highs) >= 2 /\ CountLower(swing_lows) >= 2
                 THEN 15 ELSE 0
    IN  IF trend = "sideways" THEN 50
        ELSE Min(confidence, 100) + bonus

calculate_confidence(swings, trend) ==
    LET swing_highs == SelectSeq(swings, IsSwingHigh)
        swing_lows == SelectSeq(swings, IsSwingLow)
        confirmed_swings == Len(swing_highs) + Len(swing_lows)
        \* min(confirmed_swings * 0.15, 0.95)
        confidence == Min(confirmed_swings * 15, 95)
        bonus == IF \/ /\ trend = "uptrend"
                       /\ CountHigher(swing_highs) >= 2 /\ CountHigher(swing_lows) >= 2
                    \/ /\ trend = "downtrend"
                       /\ CountLower(swing_highs) >= 2 /\ CountLower(swing_lows) >= 2
                 THEN 15 ELSE 0
    IN  IF trend = "sideways" THEN 50
        ELSE Min(confidence + bonus, 100)

check_htf_alignment(c, trend_direction) ==
    IF c.htf_trend_direction = "sideways" THEN TRUE
    ELSE trend_direction = c.htf_trend_direction

\* bars carry no "bar_index", so bars[-1].get("bar_index", 0) is 0
get_trend_inception(c, swings, trend) ==
    IF swings = << >> THEN 0
    ELSE IF trend = "sideways" THEN 0
    ELSE IF Len(swings) >= 2 THEN Max(0 - swings[Len(swings) - 1].bar_index, 0)
    ELSE Len(c.bars)

build_structure_integrity(c, swings, trend, structure_breaks) ==
    LET leading == get_leading_swings(swings)
        current_price == c.bars[Len(c.bars)].close
    IN  [ structure_intact |-> structure_breaks = 0,
          structure_breaks_detected |-> structure_breaks,
          reversal_warning |->
              /\ c.bars # << >>
              /\ \/ trend = "uptrend" /\ current_price < leading.leading_sl
                 \/ trend = "downtrend" /\ current_price > leading.leading_sh ]

TrendDefinition_execute(c) ==
    LET swings == identify_swings(c)
        trend_direction == classify_trend(swings)
        leading == get_leading_swings(swings)
        structure_breaks == detect_structure_breaks(swings, trend_direction)
        htf_aligned == check_htf_alignment(c, trend_direction)
    IN  [ node |-> "trend_definition",
          trend_analysis |->
              [ direction |-> trend_direction,
                confidence |-> calculate_confidence(swings, trend_direction),
                strength_rating |->
                    assess_trend_strength(c, swings, trend_direction, structure_breaks),
                bar_count_in_trend |-> get_trend_inception(c, swings, trend_direction) ],
          swing_structure |->
              [ swing_highs |-> BrokenMarked(SelectSeq(swings, IsSwingHigh), trend_direction),
                swing_lows |-> BrokenMarked(SelectSeq(swings, IsSwingLow), trend_direction),
                current_leading_swing_high |-> leading.leading_sh,
                current_leading_swing_low |-> leading.leading_sl ],
          structure_integrity |->
              build_structure_integrity(c, swings, trend_direction, structure_breaks),
          htf_alignment |->
              [ tf_trend_aligns_with_htf |-> htf_aligned,
                potential_conflict |-> ~htf_aligned ] ]

\* Inputs of TrendDefinition (cents)
MaxTrendBars == 8

TrendBars ==
    { [high |-> 1000 + 10 * h, low |-> 990 + 10 * h, close |-> 995 + 10 * h] :
        h \in 1..4 }

TrendHistories == UNION { [1..n -> TrendBars] : n \in 0..MaxTrendBars }

HtfDirections == {"sideways", "downtrend"}

TrendDefinitionConfigs ==
    [ bars : TrendHistories, htf_trend_direction : HtfDirections ]

InitTrendDefinition ==
    /\ pc = "trend_definition"
    /\ cfg \in TrendDefinitionConfigs
    /\ result = None
    /\ IdleLifecycle

trend_definition_node ==
    /\ pc = "trend_definition"
    /\ result' = TrendDefinition_execute(cfg)
    /\ pc' = "END"
    /\ UNCHANGED << account_balance, positions, open_position, pnl, entry_cfg,
                    cfg, orders, nManage >>

NextTrendDefinition == trend_definition_node

TrendDefinitionSpec == InitTrendDefinition /\ [][NextTrendDefinition]_vars

\* C17 - for every bar sequence the trend confidence lies in [0, 1], and
\* whenever the classified direction is sideways it is exactly 0.5.
C17_ConfidenceRange ==
    pc = "END" =>
        /\ result.trend_analysis.confidence >= 0
        /\ result.trend_analysis.confidence <= 100
        /\ result.trend_analysis.direction = "sideways" =>
              result.trend_analysis.confidence = 50

\* C17 witness - an uptrend of six swings with two higher highs and two
\* higher lows: 6 * 0.15 + 0.15 is cut to 1.0.
C17_Witness ==
    /\ pc = "END"
    /\ result.trend_analysis.direction = "uptrend"
    /\ Len(result.swing_structure.swing_highs) = 3
    /\ Len(result.swing_structure.swing_lows) = 3
    /\ CountHigher(result.swing_structure.swing_highs) = 2
    /\ CountHigher(result.swing_structure.swing_lows) = 2
    /\ result.trend_analysis.confidence = 100

\* ------------------------------------------------------------------------
\* StrengthWeakness (agents/strength_weakness.py)
\* A config is [trend_direction, current_swing, prior_swings, current_bars,
\* approaching_sr_level]; a bar is [open, high, low, close, body_size,
\* bar_range, close_position, wick_type], a prior swing [distance, price],
\* prices in cents.  Scores are in 1/10 point (round(score, 1)), the
\* combined score before rounding in 1/100 point, ratios in 1/100 and
\* retracements in 1/1000.  A call that may raise returns [ok |-> value]
\* or [raised |-> exception].
\* ------------------------------------------------------------------------
Returned(value) == [ok |-> value]

IsRaised(r) == "raised" \in DOMAIN r

RECURSIVE SumOver(_, _)
SumOver(seq, field) ==
    IF seq = << >> THEN 0
    ELSE seq[1][field] + SumOver(Tail(seq), field)

bar_in_trend_direction(c, bar) ==
    IF c.trend_direction = "up" THEN bar.close > bar.open
    ELSE bar.close < bar.open

\* consecutive_bars after the loop: the length of the longest suffix of bars
\* that all moved in the trend direction
RECURSIVE consecutive_bars(_, _)
consecutive_bars(c, bars) ==
    IF bars = << >> THEN 0
    ELSE IF bar_in_trend_direction(c, bars[Len(bars)])
    THEN 1 + consecutive_bars(c, SubSeq(bars, 1, Len(bars) - 1))
    ELSE 0

assess_close_quality(c) ==
    LET last5 == LastK(c.current_bars, 5)
        strong_closes ==
            Cardinality({ i \in 1..Len(last5) :
                \/ c.trend_direction = "up" /\ last5[i].close_position = "high"
                \/ c.trend_direction = "down" /\ last5[i].close_position = "low" })
        n == Min(5, Len(c.current_bars))
    IN  IF c.current_bars = << >> THEN "weak"
        ELSE IF strong_closes * 10 >= 6 * n THEN "strong"
        ELSE IF strong_closes * 10 >= 3 * n THEN "moderate"
        ELSE "weak"

\* the score as the fraction num/den
calculate_acceleration_score(c) ==
    LET bars == c.current_bars
        n == Len(bars)
        recent == SumOver(LastK(bars, 3), "body_size")
        prior == SumOver(SubSeq(bars, n - 5, n - 3), "body_size")
    IN  IF n < 2 THEN [num |-> 50, den |-> 1]
        ELSE IF n >= 6
        THEN \* recent_avg = recent / 3, prior_avg = prior / 3
             IF prior = 0 THEN [num |-> 50, den |-> 1]
             ELSE [num |-> Min(100 * prior, Max(0, 100 * recent)), den |-> prior]
        ELSE \* prior_avg = recent_avg
             IF recent = 0 THEN [num |-> 50, den |-> 1]
             ELSE [num |-> 100, den |-> 1]

analyze_momentum(c) ==
    IF c.current_bars = << >>
    THEN [ score |-> 500, rating |-> "moderate", bars_in_direction |-> 0,
           average_body_size |-> 0, close_quality |-> "weak" ]
    ELSE
    LET bars == c.current_bars
        n == Len(bars)
        total_body == SumOver(bars, "body_size")
        consecutive == consecutive_bars(c, bars)
        \* avg_body / historical_avg is 1 whenever historical_avg > 0
        bar_size_score == IF total_body > 0 THEN 100 ELSE 50
        acceleration == calculate_acceleration_score(c)
        \* (bar_size_score + 100 * consecutive / n + acceleration) / 3
        num == bar_size_score * n * acceleration.den
               + 100 * consecutive * acceleration.den
               + acceleration.num * n
        den == 3 * n * acceleration.den
    IN  [ score |-> MulDivRound(num, 10, den),
          rating |-> IF num >= 70 * den THEN "strong"
                     ELSE IF num >= 40 * den THEN "moderate" ELSE "weak",
          bars_in_direction |-> consecutive,
          average_body_size |-> MulDivRound(total_body, 100, n),
          close_quality |-> assess_close_quality(c) ]

analyze_projection(c) ==
    IF c.prior_swings = << >>
    THEN [ score |-> 500, ratio |-> 100, rating |-> "normal",
           prior_swing_distance |-> 0, current_projection |-> 0 ]
    ELSE
    LET current_price == IF c.current_bars # << >>
                         THEN c.current_bars[Len(c.current_bars)].close ELSE 0
        current_distance == Abs(current_price - c.current_swing.price)
        prior == LastK(c.prior_swings, 3)
        total == SumOver(prior, "distance")
        \* ratio = p / q
        p == IF total = 0 THEN 1 ELSE current_distance * Len(prior)
        q == IF total = 0 THEN 1 ELSE total
    IN  [ score |-> IF 5 * p > 6 * q
                    THEN Min(1000, MulDivRound(2000 * p, 1, 3 * q))
                    ELSE IF 5 * p >= 4 * q
                    THEN MulDivRound(1750 * p + 900 * q, 1, 3 * q)
                    ELSE MulDivRound(500 * p, 1, q),
          ratio |-> MulDivRound(p, 100, q),
          rating |-> IF 5 * p > 6 * q THEN "extending"
                     ELSE IF 5 * p >= 4 * q THEN "normal" ELSE "contracting",
          prior_swing_distance |-> MulDivRound(total, 100, Len(prior)),
          current_projection |-> current_distance * 100 ]

\* None, or the retracement as the fraction num/den after max(0, min(., 2))
calculate_pullback_depth(c) ==
    IF Len(c.current_bars) < 3 \/ c.prior_swings = << >> THEN None
    ELSE
    LET last5 == LastK(c.current_bars, 5)
        lows == { last5[i].low : i \in 1..Len(last5) }
        highs == { last5[i].high : i \in 1..Len(last5) }
        pullback_extreme ==
            IF c.trend_direction = "up"
            THEN CHOOSE x \in lows : \A y \in lows : x <= y
            ELSE CHOOSE x \in highs : \A y \in highs : x >= y
        last_swing == c.prior_swings[Len(c.prior_swings)]
        swing_distance == last_swing.distance
        depth == IF c.trend_direction = "up"
                 THEN last_swing.price - pullback_extreme
                 ELSE pullback_extreme - last_swing.price
    IN  IF swing_distance = 0 THEN None
        ELSE [ num |-> Max(0, Min(depth, 2 * swing_distance)), den |-> swing_distance ]

analyze_depth(c) ==
    LET pullback_depth == calculate_pullback_depth(c)
    IN  IF pullback_depth = None
        THEN [ score |-> 500, retracement_ratio |-> 500,
               retracement_percentage |-> 500, rating |-> "normal" ]
        ELSE
        LET a == pullback_depth.num
            b == pullback_depth.den
        IN  [ score |->
                  IF 1000 * a < 382 * b
                  THEN Min(1000, MulDivRound(382000 * b - 700000 * a, 1, 382 * b))
                  ELSE IF 1000 * a <= 618 * b
                  THEN MulDivRound(279800 * b - 300000 * a, 1, 236 * b)
                  ELSE IF a < b THEN MulDivRound(400 * (b - a), 1, b)
                  ELSE 0,
              retracement_ratio |-> MulDivRound(a, 1000, b),
              retracement_percentage |-> MulDivRound(a, 1000, b),
              rating |-> IF 1000 * a < 382 * b THEN "shallow"
                         ELSE IF 1000 * a <= 618 * b THEN "normal"
                         ELSE IF a < b THEN "deep" ELSE "full_reversal" ]

\* A combination that weighs the momentum by 0.50.
calculate_combined_score_heavy_momentum(momentum_score, projection_score, depth_score) ==
    LET combined == 5 * momentum_score + 3 * projection_score + 3 * depth_score
    IN  Min(10000, Max(0, combined))

\* scores in 1/10 point, the result in 1/100 point
calculate_combined_score(momentum_score, projection_score, depth_score) ==
    LET combined == 4 * momentum_score + 3 * projection_score + 3 * depth_score
    IN  Min(10000, Max(0, combined))

determine_strength_rating(combined_score) ==
    IF combined_score >= 7000 THEN "strong"
    ELSE IF combined_score >= 4000 THEN "moderate"
    ELSE "weak"

detect_rejection_bars(c) ==
    /\ Len(c.current_bars) >= 3
    /\ \E i \in (Len(c.current_bars) - 2)..Len(c.current_bars) :
          LET bar == c.current_bars[i]
          IN  /\ IF bar.bar_range # 0 THEN 10 * bar.body_size < 4 * bar.bar_range
                 ELSE bar.body_size < 40
              /\ bar.wick_type \in {"upper", "lower", "both"}

detect_momentum_divergence(c, momentum_analysis) ==
    LET bars == c.current_bars
        n == Len(bars)
        recent_bars == LastK(bars, 5)
    IN  IF momentum_analysis.score < 400 /\ n >= 5
        THEN \* self.bars[-6]
             IF n < 6 THEN Raised("IndexError")
             ELSE IF c.trend_direction = "up"
             THEN Returned(/\ \E i \in 1..5 : recent_bars[i].high > bars[n - 5].high
                           /\ momentum_analysis.score < 300)
             ELSE Returned(/\ \E i \in 1..5 : recent_bars[i].low < bars[n - 5].low
                           /\ momentum_analysis.score < 300)
        ELSE Returned(FALSE)

detect_weakness_signals(c, momentum_analysis, projection_analysis, depth_analysis) ==
    LET rejection_bars == detect_rejection_bars(c)
        divergence == detect_momentum_divergence(c, momentum_analysis)
        deep_pullback == depth_analysis.retracement_ratio > 618
    IN  IF IsRaised(divergence) THEN divergence
        ELSE Returned(
            [ rejection_bars_detected |-> rejection_bars,
              momentum_divergence |-> divergence.ok,
              projection_failure |-> projection_analysis.ratio < 80,
              deep_pullback |-> deep_pullback,
              reversal_warning |-> /\ rejection_bars
                                   /\ deep_pullback
                                   /\ projection_analysis.rating = "contracting" ])

assess_setup_applicability(c, combined_score, weakness_signals, overall_rating) ==
    LET good_for_continuation == combined_score >= 6000
        good_for_reversal == \/ combined_score < 4000
                             \/ weakness_signals.rejection_bars_detected
                             \/ weakness_signals.deep_pullback
        fade_weakness == /\ c.approaching_sr_level # None
                         /\ combined_score < 4000
                         /\ weakness_signals.rejection_bars_detected
    IN  [ good_for_continuation_setups |-> good_for_continuation,
          good_for_reversal_setups |-> good_for_reversal,
          fade_weakness_opportunity |-> fade_weakness,
          expected_action |->
              IF good_for_continuation /\ combined_score >= 7000
              THEN "Expect pullback continuation; favorable for BPB, PB, CPB setups in trend direction"
              ELSE IF good_for_reversal /\ weakness_signals.reversal_warning
              THEN "Reversal warning: multiple weakness signals detected; avoid counter-trend entries"
              ELSE IF fade_weakness THEN "Fade weakness at S/R level; enter opposite to weakness direction"
              ELSE IF overall_rating = "moderate" THEN "Neutral strength; context dependent; confirm with HTF bias"
              ELSE "Monitor for continuation or reversal based on next bars" ]

StrengthWeakness_execute(c) ==
    LET momentum_analysis == analyze_momentum(c)
        projection_analysis == analyze_projection(c)
        depth_analysis == analyze_depth(c)
        combined_score == calculate_combined_score(momentum_analysis.score,
                              projection_analysis.score, depth_analysis.score)
        overall_rating == determine_strength_rating(combined_score)
        weakness_signals ==
            detect_weakness_signals(c, momentum_analysis, projection_analysis,
                                    depth_analysis)
    IN  IF IsRaised(weakness_signals) THEN weakness_signals
        ELSE
        [ analysis_complete |-> TRUE,
          strength_analysis |->
              [ momentum |-> momentum_analysis,
                projection |-> projection_analysis,
                depth |-> depth_analysis,
                combined_score |-> MulDivRound(combined_score, 1, 10),
                overall_strength_rating |-> overall_rating ],
          weakness_signals |-> weakness_signals.ok,
          setup_applicability |->
              assess_setup_applicability(c, combined_score, weakness_signals.ok,
                                         overall_rating) ]

\* Inputs of StrengthWeakness (cents)
MaxStrengthBars == 6

StrengthBars ==
    { [ open |-> 1000, high |-> 1010, low |-> 990, close |-> 1000, body_size |-> 0,
        bar_range |-> 20, close_position |-> "mid", wick_type |-> "both" ],
      [ open |-> 1000, high |-> 1012, low |-> 998, close |-> 1010, body_size |-> 10,
        bar_range |-> 14, close_position |-> "high", wick_type |-> "none" ],
      [ open |-> 1010, high |-> 1012, low |-> 996, close |-> 1000, body_size |-> 10,
        bar_range |-> 16, close_position |-> "low", wick_type |-> "lower" ],
      [ open |-> 1000, high |-> 1030, low |-> 1000, close |-> 1030, body_size |-> 30,
        bar_range |-> 30, close_position |-> "high", wick_type |-> "none" ] }

StrengthHistories == UNION { [1..n -> StrengthBars] : n \in 0..MaxStrengthBars }

PriorSwingLists ==
    { << >>,
      << [distance |-> 0, price |-> 1020] >>,
      << [distance |-> 20, price |-> 1020] >>,
      << [distance |-> 40, price |-> 1040], [distance |-> 10, price |-> 1000] >> }

StrengthWeaknessConfigs ==
    [ trend_direction : {"up", "down", "neutral"},
      current_swing : { [price |-> 990] },
      prior_swings : PriorSwingLists,
      current_bars : StrengthHistories,
      approaching_sr_level : { None, [price |-> 1020] } ]

InitStrengthWeakness ==
    /\ pc = "strength_weakness"
    /\ cfg \in StrengthWeaknessConfigs
    /\ result = None
    /\ IdleLifecycle

strength_weakness_node ==
    /\ pc = "strength_weakness"
    /\ result' = StrengthWeakness_execute(cfg)
    /\ pc' = "END"
    /\ UNCHANGED << account_balance, positions, open_position, pnl, entry_cfg,
                    cfg, orders, nManage >>

\* A direct call of _calculate_combined_score on three scores (1/10 point)
ComponentScores == {0, 5, 333, 500, 600, 700, 800, 1000}

CombinedScoreCalls ==
    [ momentum_score : ComponentScores,
      projection_score : ComponentScores,
      depth_score : ComponentScores ]

InitCombinedScore ==
    /\ pc = "calculate_combined_score"
    /\ cfg \in CombinedScoreCalls
    /\ result = None
    /\ IdleLifecycle

combined_score_call ==
    /\ pc = "calculate_combined_score"
    /\ result' = [ combined_score |->
                       calculate_combined_score(cfg.momentum_score,
                           cfg.projection_score, cfg.depth_score) ]
    /\ pc' = "END"
    /\ UNCHANGED << account_balance, positions, open_position, pnl, entry_cfg,
                    cfg, orders, nManage >>

NextStrengthWeakness ==
    \/ strength_weakness_node
    \/ combined_score_call

StrengthWeaknessSpec ==
    (InitStrengthWeakness \/ InitCombinedScore) /\ [][NextStrengthWeakness]_vars

\* C18 - for all momentum, projection and depth scores in [0, 100] the
\* combined strength score is 0.40 * momentum + 0.30 * projection
\* + 0.30 * depth and lies in [0, 100]; the score an analysis reports is
\* that combination of its three reported scores, to one decimal.
C18_CombinedScoreWeights ==
    /\ (pc = "END" /\ "momentum_score" \in DOMAIN cfg) =>
          /\ result.combined_score = 4 * cfg.momentum_score
                                     + 3 * cfg.projection_score
                                     + 3 * cfg.depth_score
          /\ result.combined_score >= 0
          /\ result.combined_score <= 10000
    /\ (pc = "END" /\ "strength_analysis" \in DOMAIN result) =>
          LET a == result.strength_analysis
          IN  /\ a.combined_score =
                    MulDivRound(4 * a.momentum.score + 3 * a.projection.score
                                + 3 * a.depth.score, 1, 10)
              /\ a.combined_score >= 0
              /\ a.combined_score <= 1000

\* C18 witness - the scores 80, 70 and 60 have been combined: the three
\* differ, so the weights decide the result.
C18_Witness ==
    /\ pc = "END"
    /\ cfg = [momentum_score |-> 800, projection_score |-> 700, depth_score |-> 600]
    /\ result.combined_score = 7100

\* C13 - an analytical agent returns a result for every number of bars,
\* swings and levels: its run never ends in an exception.
C13_AnalyticalAgentsNeverRaise ==
    pc = "END" => ~IsRaised(result)

\* ------------------------------------------------------------------------
\* SetupScanner (agents/setup_scanner.py)
\* A config is [trend_direction, swing_high, swing_low, trend_strength,
\* current_price, bars, sr_levels, trend_stage, volatility, min_confluence,
\* min_risk_reward]; a bar is [open, high, low, close, close_position,
\* body_strength], a level [price, type, strength].  Input prices are in
\* cents; the prices of a setup (entry, stop, targets) are in 1/1000 cent,
\* so that level * 1.001, * 0.999, * 0.99, * 1.01, * 0.98 and * 1.02 are
\* exact.  Probabilities are in 1/10 point, min_risk_reward and the
\* reported risk_reward_ratio in 1/100.  Of the entry zone and the stop
\* loss the setup carries the ideal entry and the stop price; the random
\* setup_id and the descriptive texts are left out.
\* ------------------------------------------------------------------------
identify_rejection_bars(bars) ==
    \E i \in 1..Len(bars) :
        LET body_size == Abs(bars[i].close - bars[i].open)
            wick_size == Max(Abs(bars[i].high - bars[i].close),
                             Abs(bars[i].open - bars[i].low))
        IN  2 * wick_size > 3 * body_size

validates_against_trend(bars, trend) ==
    IF trend = "up"
    THEN \E i \in 1..Len(bars) : bars[i].close_position = "low"
    ELSE \E i \in 1..Len(bars) : bars[i].close_position = "high"

has_breakout_bar(bar, level_price) ==
    bar.close > level_price \/ bar.close < level_price

has_weak_followthrough(bars) ==
    \/ bars = << >>
    \/ 2 * Cardinality({ i \in 1..Len(bars) : bars[i].body_strength = "weak" })
          >= Len(bars)

pullback_through_level(bars, level_price) ==
    \E i \in 1..Len(bars) :
        \/ bars[i].low < level_price /\ bars[i].close < level_price
        \/ bars[i].high > level_price /\ bars[i].close > level_price

has_sustained_breakout(bars, level_price) ==
    /\ bars # << >>
    /\ bars[1].high > level_price \/ bars[1].low < level_price
    /\ Len(bars) > 1 =>
          10 * Cardinality({ i \in 2..Len(bars) : bars[i].body_strength = "strong" })
              >= 4 * (Len(bars) - 1)

IsWeakBar(bar) == bar.body_strength = "weak"

identify_pullback_structure(bars) == SelectSeq(LastK(bars, 5), IsWeakBar)

pullback_holds_level(pullback_bars, level_price) ==
    /\ pullback_bars # << >>
    /\ \/ ~ \E i \in 1..Len(pullback_bars) : pullback_bars[i].close < level_price
       \/ ~ \E i \in 1..Len(pullback_bars) : pullback_bars[i].close > level_price

\* the bars i..len(bars)-2 (0-based) that are a swing high or else a swing low
RECURSIVE identify_swing_structure_from(_, _)
identify_swing_structure_from(bars, i) ==
    IF i >= Len(bars) THEN << >>
    ELSE LET bar == bars[i]
             prev_bar == bars[i - 1]
             next_bar == bars[i + 1]
             rest == identify_swing_structure_from(bars, i + 1)
         IN  IF bar.high > prev_bar.high /\ bar.high > next_bar.high
             THEN << bar >> \o rest
             ELSE IF bar.low < prev_bar.low /\ bar.low < next_bar.low
             THEN << bar >> \o rest
             ELSE rest

identify_swing_structure(bars) ==
    IF Len(bars) < 3 THEN << >> ELSE identify_swing_structure_from(bars, 2)

is_simple_pullback(swing_structure, trend) ==
    LET n == Len(swing_structure)
    IN  /\ n >= 3
        /\ IF trend = "up"
           THEN swing_structure[n - 2].high < swing_structure[n].high
           ELSE swing_structure[n - 2].low > swing_structure[n].low

is_complex_pullback(swing_structure, trend) ==
    LET n == Len(swing_structure)
        against_trend_count ==
            Cardinality({ i \in 1..(n - 1) :
                IF trend = "up"
                THEN swing_structure[i].high > swing_structure[i + 1].high
                ELSE swing_structure[i].low < swing_structure[i + 1].low })
    IN  n >= 5 /\ against_trend_count >= 2

structure_formation_complete(recent_swings) == Len(recent_swings) >= 3

\* sr_level in cents, the target price in 1/1000 cent
calculate_targets(c, direction, sr_level) ==
    LET t1_price == IF direction = "long"
                    THEN sr_level + (sr_level - c.swing_low)
                    ELSE sr_level - (c.swing_high - sr_level)
    IN  << [level |-> "T1", price |-> 1000 * t1_price, type |-> "next_sr"] >>

assess_market_conditions(c) ==
    IF c.trend_stage = "strong" /\ c.volatility = "normal"
    THEN "Excellent conditions for trend-following setups (TST, PB, CPB)"
    ELSE IF c.trend_stage = "slowing"
    THEN "Good conditions for CPB (multi-swing = trapped traders)"
    ELSE IF c.trend_stage = "ranging"
    THEN "Caution: BOF/BPB less reliable in ranges"
    ELSE IF c.trend_stage = "volatile"
    THEN "Wider stops needed; watch for whipsaws"
    ELSE "Neutral market conditions"

\* the risk-to-reward ratio as the fraction num/den, den > 0
risk_reward(direction, entry_ideal, stop, target_price) ==
    IF direction = "long"
    THEN [num |-> target_price - entry_ideal, den |-> entry_ideal - stop]
    ELSE [num |-> entry_ideal - target_price, den |-> stop - entry_ideal]

rate_setup_quality(probability_score, confluence_count, rrr, min_confluence) ==
    IF /\ probability_score >= 800
       /\ confluence_count >= min_confluence + 1
       /\ 2 * rrr.num >= 5 * rrr.den
    THEN "A"
    ELSE IF /\ probability_score >= 700
            /\ confluence_count >= min_confluence
            /\ 2 * rrr.num >= 3 * rrr.den
    THEN "B"
    ELSE "C"

\* A setup that is ready as soon as confluence and probability are met.
create_setup_without_risk_reward(c, setup_type, direction, sr_level, entry_ideal, stop, targets, rrr, confluence_factors, trapped_trader_potential, probability_score) ==
    [ type |-> setup_type,
      direction |-> direction,
      probability_score |-> probability_score,
      sr_level |-> sr_level,
      entry_zone |-> [ideal |-> entry_ideal],
      stop_loss |-> [price |-> stop],
      targets |-> targets,
      risk_reward_ratio |-> MulDivRound(rrr.num, 100, rrr.den),
      confluence_factors |-> confluence_factors,
      trapped_trader_potential |-> trapped_trader_potential,
      ready_to_trade |-> /\ Len(confluence_factors) >= c.min_confluence
                         /\ probability_score >= 650,
      quality_rating |-> rate_setup_quality(probability_score,
                             Len(confluence_factors), rrr, c.min_confluence) ]

create_setup(c, setup_type, direction, sr_level, entry_ideal, stop, targets, rrr, confluence_factors, trapped_trader_potential, probability_score) ==
    [ type |-> setup_type,
      direction |-> direction,
      probability_score |-> probability_score,
      sr_level |-> sr_level,
      entry_zone |-> [ideal |-> entry_ideal],
      stop_loss |-> [price |-> stop],
      targets |-> targets,
      risk_reward_ratio |-> MulDivRound(rrr.num, 100, rrr.den),
      confluence_factors |-> confluence_factors,
      trapped_trader_potential |-> trapped_trader_potential,
      ready_to_trade |-> /\ Len(confluence_factors) >= c.min_confluence
                         /\ 100 * rrr.num >= c.min_risk_reward * rrr.den
                         /\ probability_score >= 650,
      quality_rating |-> rate_setup_quality(probability_score,
                             Len(confluence_factors), rrr, c.min_confluence) ]

\* the body of the loop of _scan_tst for one level of price > 0
scan_tst_level(c, sr_level) ==
    LET level_price == sr_level.price
        last3 == LastK(c.bars, 3)
        has_rejection_bars == identify_rejection_bars(last3)
        direction == IF c.trend_direction = "up" THEN "long" ELSE "short"
        entry_ideal == IF c.trend_direction = "up"
                       THEN level_price * 1001 ELSE level_price * 999
        stop == IF c.trend_direction = "up"
                THEN level_price * 990 ELSE level_price * 1010
        targets == calculate_targets(c, direction, level_price)
        rrr == risk_reward(direction, entry_ideal, stop, targets[1].price)
        confidence == 700 + (IF has_rejection_bars THEN 30 ELSE 0)
                      + (IF c.trend_stage = "strong" THEN 200
                         ELSE IF c.trend_stage = "slowing" THEN 0 - 100 ELSE 0)
    IN  \* 0 < abs(current_price - level_price) / level_price * 100 <= 1.0
        IF /\ 0 < Abs(c.current_price - level_price)
           /\ 100 * Abs(c.current_price - level_price) <= level_price
           /\ has_rejection_bars
           /\ validates_against_trend(last3, c.trend_direction)
        THEN << create_setup(c, "TST", direction, sr_level, entry_ideal, stop,
                             targets, rrr,
                             << "HTF trend alignment", "rejection bars at level" >>,
                             "high", Min(1000, confidence)) >>
        ELSE << >>

\* the loop of _scan_tst: the division by level_price raises for a level of
\* price 0 when the loop reaches it
RECURSIVE scan_tst_levels(_, _)
scan_tst_levels(c, levels) ==
    IF levels = << >> THEN Returned(<< >>)
    ELSE IF levels[1].price = 0 THEN Raised("ZeroDivisionError")
    ELSE LET rest == scan_tst_levels(c, Tail(levels))
         IN  IF IsRaised(rest) THEN rest
             ELSE Returned(scan_tst_level(c, levels[1]) \o rest.ok)

scan_tst(c) ==
    IF Len(c.bars) < 3 THEN Returned(<< >>)
    ELSE scan_tst_levels(c, c.sr_levels)

scan_bof_level(c, sr_level) ==
    LET level_price == sr_level.price
        recent_bars == LastK(c.bars, 10)
        breakout_bar == recent_bars[1]
        short == breakout_bar.high > level_price
        direction == IF short THEN "short" ELSE "long"
        entry_ideal == IF short THEN level_price * 999 ELSE level_price * 1001
        stop == IF short THEN breakout_bar.high * 1001 ELSE breakout_bar.low * 999
        targets == calculate_targets(c, direction, level_price)
        rrr == risk_reward(direction, entry_ideal, stop, targets[1].price)
        confidence == 750 + 150 - (IF c.trend_stage = "ranging" THEN 100 ELSE 0)
    IN  IF /\ has_breakout_bar(breakout_bar, level_price)
           /\ \/ has_weak_followthrough(Tail(recent_bars))
              \/ pullback_through_level(Tail(recent_bars), level_price)
        THEN << create_setup(c, "BOF", direction, sr_level, entry_ideal, stop,
                             targets, rrr,
                             << "failed breakout", "trapped trader reversal" >>,
                             "high", Min(1000, Max(500, confidence))) >>
        ELSE << >>

RECURSIVE scan_bof_levels(_, _)
scan_bof_levels(c, levels) ==
    IF levels = << >> THEN << >>
    ELSE scan_bof_level(c, levels[1]) \o scan_bof_levels(c, Tail(levels))

scan_bof(c) ==
    IF Len(c.bars) < 10 THEN Returned(<< >>)
    ELSE Returned(scan_bof_levels(c, c.sr_levels))

scan_bpb_level(c, sr_level) ==
    LET level_price == sr_level.price
        pullback_legs == identify_pullback_structure(LastK(c.bars, 15))
        last_leg == pullback_legs[Len(pullback_legs)]
        direction == IF c.trend_direction = "up" THEN "long" ELSE "short"
        entry_ideal == IF c.trend_direction = "up"
                       THEN last_leg.high * 1001 ELSE last_leg.low * 999
        stop == IF c.trend_direction = "up"
                THEN last_leg.low * 990 ELSE last_leg.high * 1010
        targets == calculate_targets(c, direction, level_price)
        rrr == risk_reward(direction, entry_ideal, stop, targets[1].price)
        confidence == 700 + 100 + (IF c.trend_stage = "strong" THEN 150 ELSE 0)
    IN  IF /\ has_sustained_breakout(LastK(c.bars, 5), level_price)
           /\ pullback_legs # << >>
           /\ pullback_holds_level(pullback_legs, level_price)
        THEN << create_setup(c, "BPB", direction, sr_level, entry_ideal, stop,
                             targets, rrr,
                             << "sustained breakout", "pullback holds support",
                                "strength confirmation" >>,
                             "moderate", Min(1000, confidence)) >>
        ELSE << >>

RECURSIVE scan_bpb_levels(_, _)
scan_bpb_levels(c, levels) ==
    IF levels = << >> THEN << >>
    ELSE scan_bpb_level(c, levels[1]) \o scan_bpb_levels(c, Tail(levels))

scan_bpb(c) ==
    IF Len(c.bars) < 15 THEN Returned(<< >>)
    ELSE Returned(scan_bpb_levels(c, c.sr_levels))

scan_pb(c) ==
    IF Len(c.bars) < 5 THEN Returned(<< >>)
    ELSE
    LET swing_structure == identify_swing_structure(c.bars)
        n == Len(swing_structure)
        pullback_extreme == swing_structure[n]
        up == c.trend_direction = "up"
        direction == IF up THEN "long" ELSE "short"
        entry_ideal == IF up THEN pullback_extreme.low * 1001
                       ELSE pullback_extreme.high * 999
        stop == IF up THEN pullback_extreme.low * 990
                ELSE pullback_extreme.high * 1010
        target_price == IF up THEN 1000 * swing_structure[n - 2].high
                        ELSE 1000 * swing_structure[n - 2].low
        sr_level == [ price |-> IF up THEN pullback_extreme.low
                                ELSE pullback_extreme.high,
                      type |-> "swing_point", strength |-> "moderate" ]
        rrr == risk_reward(direction, entry_ideal, stop, target_price)
        confidence == 650 + (IF c.trend_strength = "strong" THEN 100 ELSE 0)
    IN  IF n >= 3 /\ is_simple_pullback(swing_structure, c.trend_direction)
        THEN Returned(<< create_setup(c, "PB", direction, sr_level, entry_ideal, stop,
                             << [level |-> "T1", price |-> target_price,
                                 type |-> "swing_point"] >>,
                             rrr,
                             << "trend alignment", "pullback reversal",
                                "order flow balance" >>,
                             "low", Min(1000, confidence)) >>)
        ELSE Returned(<< >>)

scan_cpb(c) ==
    IF Len(c.bars) < 15 THEN Returned(<< >>)
    ELSE
    LET swing_structure == identify_swing_structure(c.bars)
        n == Len(swing_structure)
        pullback_bars == LastK(swing_structure, 5)
        lows == { pullback_bars[i].low : i \in 1..Len(pullback_bars) }
        highs == { pullback_bars[i].high : i \in 1..Len(pullback_bars) }
        pullback_low == CHOOSE x \in lows : \A y \in lows : x <= y
        pullback_high == CHOOSE x \in highs : \A y \in highs : x >= y
        up == c.trend_direction = "up"
        direction == IF up THEN "long" ELSE "short"
        entry_ideal == IF up THEN pullback_low * 1001 ELSE pullback_high * 999
        stop == IF up THEN pullback_low * 980 ELSE pullback_high * 1020
        target_price == IF up THEN 1000 * swing_structure[n - 5].high
                        ELSE 1000 * swing_structure[n - 5].low
        sr_level == [ price |-> IF up THEN pullback_low ELSE pullback_high,
                      type |-> "swing_point", strength |-> "strong" ]
        rrr == risk_reward(direction, entry_ideal, stop, target_price)
        confidence == 800 + 150
                      + (IF c.trend_stage = "strong" THEN 100
                         ELSE IF c.trend_stage = "slowing" THEN 50 ELSE 0)
    IN  IF /\ n >= 5
           /\ is_complex_pullback(swing_structure, c.trend_direction)
           /\ structure_formation_complete(LastK(swing_structure, 3))
        THEN \* swing_structure[-6]
             IF n < 6 THEN Raised("IndexError")
             ELSE Returned(<< create_setup(c, "CPB", direction, sr_level, entry_ideal,
                             stop,
                             << [level |-> "T1", price |-> target_price,
                                 type |-> "swing_point"] >>,
                             rrr,
                             << "multi-swing pullback", "trapped traders accumulated",
                                "structure confirmation" >>,
                             "high", Min(1000, confidence)) >>)
        ELSE Returned(<< >>)

\* setups.extend(scan) after the scans before it: the first exception ends
\* the run
ExtendSetups(setups, scan) ==
    IF IsRaised(setups) THEN setups
    ELSE IF IsRaised(scan) THEN scan
    ELSE Returned(setups.ok \o scan.ok)

\* setups.sort(key=probability_score, reverse=True): stable, descending
RECURSIVE InsertByProbability(_, _)
InsertByProbability(sorted, setup) ==
    IF sorted = << >> THEN << setup >>
    ELSE IF sorted[Len(sorted)].probability_score >= setup.probability_score
    THEN Append(sorted, setup)
    ELSE Append(InsertByProbability(SubSeq(sorted, 1, Len(sorted) - 1), setup),
                sorted[Len(sorted)])

RECURSIVE SortByProbability(_)
SortByProbability(setups) ==
    IF setups = << >> THEN << >>
    ELSE InsertByProbability(
             SortByProbability(SubSeq(setups, 1, Len(setups) - 1)),
             setups[Len(setups)])

IsTradeReady(setup) == setup.ready_to_trade

SetupScanner_execute(c) ==
    LET scanned ==
            ExtendSetups(
                ExtendSetups(
                    ExtendSetups(
                        ExtendSetups(scan_tst(c), scan_bof(c)),
                        scan_bpb(c)),
                    scan_pb(c)),
                scan_cpb(c))
    IN  IF IsRaised(scanned) THEN scanned
        ELSE
        LET setups == SortByProbability(scanned.ok)
        IN  [ scan_complete |-> TRUE,
              active_setups |-> setups,
              scan_summary |->
                  [ total_setups_identified |-> Len(setups),
                    trade_ready_count |-> Len(SelectSeq(setups, IsTradeReady)),
                    highest_probability_setup_id |->
                        IF setups # << >> THEN "setups[0].setup_id" ELSE "None",
                    market_condition_verdict |-> assess_market_conditions(c) ] ]

\* Inputs of SetupScanner (cents).  A history is a run of equal bars, which
\* holds no swing, followed by a tail drawn from three bar shapes.
MaxScannerTail == 7

FlatBar ==
    [ open |-> 1010, high |-> 1020, low |-> 1000, close |-> 1010,
      close_position |-> "low", body_strength |-> "weak" ]

ScannerBars ==
    { [ open |-> 990, high |-> 1000, low |-> 980, close |-> 985,
        close_position |-> "low", body_strength |-> "weak" ],
      [ open |-> 1005, high |-> 1020, low |-> 1000, close |-> 1018,
        close_position |-> "high", body_strength |-> "strong" ],
      [ open |-> 1025, high |-> 1040, low |-> 1020, close |-> 1030,
        close_position |-> "high", body_strength |-> "weak" ] }

FlatPrefixLengths == {0, 8}

ScannerHistories ==
    { [i \in 1..k |-> FlatBar] \o tail :
        k \in FlatPrefixLengths,
        tail \in UNION { [1..n -> ScannerBars] : n \in 0..MaxScannerTail } }

ScannerLevels ==
    { << >>,
      << [price |-> 0, type |-> "swing_point", strength |-> "strong"] >>,
      << [price |-> 1005, type |-> "support", strength |-> "strong"] >>,
      << [price |-> 1005, type |-> "support", strength |-> "strong"],
         [price |-> 1030, type |-> "resistance", strength |-> "strong"] >> }

ScannerSwings ==
    { [swing_high |-> 1060, swing_low |-> 950],
      [swing_high |-> 1012, swing_low |-> 1008] }

TrendStages == {"strong", "ranging"}

MinConfluences == {2, 3}

MinRiskRewards == {150, 500}

InitSetupScanner ==
    /\ pc = "setup_scanner"
    /\ \E d \in {"up", "down"}, sw \in ScannerSwings, bars \in ScannerHistories,
          levels \in ScannerLevels, stage \in TrendStages,
          mc \in MinConfluences, mrr \in MinRiskRewards :
          cfg = [ trend_direction |-> d, swing_high |-> sw.swing_high,
                  swing_low |-> sw.swing_low, trend_strength |-> "moderate",
                  current_price |-> 1000, bars |-> bars, sr_levels |-> levels,
                  trend_stage |-> stage, volatility |-> "normal",
                  min_confluence |-> mc, min_risk_reward |-> mrr ]
    /\ result = None
    /\ IdleLifecycle

setup_scanner_node ==
    /\ pc = "setup_scanner"
    /\ result' = SetupScanner_execute(cfg)
    /\ pc' = "END"
    /\ UNCHANGED << account_balance, positions, open_position, pnl, entry_cfg,
                    cfg, orders, nManage >>

NextSetupScanner == setup_scanner_node

SetupScannerSpec == InitSetupScanner /\ [][NextSetupScanner]_vars

\* the setups of a completed scan
GeneratedSetups ==
    IF pc = "END" /\ "active_setups" \in DOMAIN result
    THEN { result.active_setups[i] : i \in 1..Len(result.active_setups) }
    ELSE {}

\* C19 - every generated setup has its prices ordered by direction:
\* target > entry > stop for a long setup, stop > entry > target for a short.
C19_SetupPricesOrdered ==
    \A s \in GeneratedSetups :
        IF s.direction = "long"
        THEN s.targets[1].price > s.entry_zone.ideal
             /\ s.entry_zone.ideal > s.stop_loss.price
        ELSE s.stop_loss.price > s.entry_zone.ideal
             /\ s.entry_zone.ideal > s.targets[1].price

\* the risk-to-reward ratio of a setup, before rounding, is below min_rr / 100
RiskRewardBelow(s, min_rr) ==
    LET rrr == risk_reward(s.direction, s.entry_zone.ideal, s.stop_loss.price,
                           s.targets[1].price)
    IN  100 * rrr.num < min_rr * rrr.den

\* C20 - a setup whose risk-to-reward ratio (as computed, and as reported to
\* two decimals) is below min_risk_reward is not ready to trade, whatever its
\* probability score and confluence count.
C20_LowRiskRewardNotReady ==
    \A s \in GeneratedSetups :
        (\/ RiskRewardBelow(s, cfg.min_risk_reward)
         \/ s.risk_reward_ratio < cfg.min_risk_reward) => ~s.ready_to_trade

\* C20 witness - a setup with probability >= 65 and enough confluence factors
\* whose positive risk-to-reward ratio is below the minimum: only the ratio
\* keeps it from being ready.
C20_Witness ==
    \E s \in GeneratedSetups :
        /\ s.probability_score >= 650
        /\ Len(s.confluence_factors) >= cfg.min_confluence
        /\ s.risk_reward_ratio > 0
        /\ s.risk_reward_ratio < cfg.min_risk_reward
        /\ ~s.ready_to_trade

\* ========================================================================
\* Position lifecycle: the stop, the close and the session pnl
\* ========================================================================

\* C21 - the position record the close is handed (cfg.open_position of the
\* exit agent, read when the exit node runs) always carries the latest stop,
\* i.e. the stop that manage() has adjusted and the graph has stored in
\* positions, so that the close clamps and classifies against it.
C21_CloseUsesLatestStop ==
    (pc = "END" /\ cfg.open_position # None) =>
        cfg.open_position.stop_loss = positions.rec.stop_loss

\* C22 - a position never becomes inactive without a TradeResult: whenever
\* an active position stops being active (in particular when the close
\* failed), a trade result is stored for it.
C22_InactiveOnlyWithTradeResult ==
    [][ (positions.active /\ ~positions'.active) =>
            positions'.trade_result # None ]_vars

\* C23 - the side of every submitted order matches the direction of the
\* position: the entry order (the first one) is a buy for a long and a sell
\* for a short, and the closing order (the second one) is the opposite side.
C23_OrderSideMatchesDirection ==
    /\ Len(orders) >= 1 =>
         LET direction == entry_cfg.best_setup.direction
         IN  /\ direction = "long" => orders[1].is_buy
             /\ direction = "short" => ~orders[1].is_buy
    /\ Len(orders) >= 2 =>
         LET direction == entry_cfg.best_setup.direction
         IN  /\ direction = "long" => ~orders[2].is_buy
             /\ direction = "short" => orders[2].is_buy

\* C24 - a setup whose resolved direction is neither long nor short never
\* results in an open position.
C24_OnlyLongOrShortOpens ==
    positions.active => positions.rec.entry_type \in {"long", "short"}

\* C25 - the session pnl changes only in a successful close, and then by
\* exactly the gross pnl of the trade result; failed opens, manage() calls
\* and failed closes leave it unchanged, and a position whose trade result
\* is stored never contributes again.
C25_PnlOnlyOnSuccessfulClose ==
    [][ /\ pnl' # pnl =>
             /\ pc = "exit_execution"
             /\ positions.active
             /\ positions.trade_result = None
             /\ result'.exit_successful
             /\ result'.trade_result # None
        /\ (pc = "exit_execution" /\ pc' = "END" /\ result'.exit_successful) =>
             pnl' = pnl + result'.trade_result.gross_pnl
        /\ (pc = "exit_execution" /\ pc' = "END" /\ ~result'.exit_successful) =>
             pnl' = pnl
        /\ positions.trade_result # None => pnl' = pnl ]_vars

\* a close has succeeded and booked a non-zero gross pnl, after at least
\* one manage() call
C25_Witness ==
    /\ pc = "END"
    /\ nManage >= 1
    /\ positions.trade_result # None
    /\ positions.trade_result.gross_pnl # 0
    /\ pnl = positions.trade_result.gross_pnl

\* C26 - for a validated position, whatever the close price, the realised
\* loss is at most |entry - stop| x size and the realised profit at most
\* |target - entry| x size (pnl in cents, size in 1/10000 unit).
C26_BoundedLossAndProfit ==
    (pc = "END" /\ positions.trade_result # None) =>
        LET p == cfg.open_position
            tr == positions.trade_result
        IN  /\ (0 - tr.gross_pnl) * 10000
                 <= Abs(p.entry_price - p.stop_loss) * p.position_size
            /\ tr.gross_pnl * 10000
                 <= Abs(p.take_profit - p.entry_price) * p.position_size

\* C26 (amended) - the realised pnl is rounded to the cent, so for a
\* validated position, whatever the close price, the realised loss exceeds
\* |entry - stop| x size by at most half a cent and the realised profit
\* exceeds |target - entry| x size by at most half a cent.
C26_BoundedUpToRounding ==
    (pc = "END" /\ positions.trade_result # None) =>
        LET p == cfg.open_position
            tr == positions.trade_result
        IN  /\ (0 - tr.gross_pnl) * 10000
                 <= Abs(p.entry_price - p.stop_loss) * p.position_size + 5000
            /\ tr.gross_pnl * 10000
                 <= Abs(p.take_profit - p.entry_price) * p.position_size + 5000

\* a long has been closed at a price below its stop and the loss was
\* realised at the stop
C26_Witness ==
    /\ pc = "END"
    /\ positions.trade_result # None
    /\ cfg.open_position.entry_type = "long"
    /\ cfg.current_price > 0
    /\ cfg.current_price < cfg.open_position.stop_loss
    /\ positions.trade_result.exit_price = cfg.open_position.stop_loss
    /\ positions.trade_result.gross_pnl < 0

\* ========================================================================
\* The pipeline run as the graph executes it
\* ========================================================================
\* entry_execution_node as written: EntryExecution.execute is a coroutine
\* function and the node calls it without await (graph.py:753), so result
\* is a coroutine object and result["execution_complete"] (graph.py:759)
\* raises TypeError before any state is written.  The exception leaves the
\* node and ends the run: no later node is scheduled.
entry_execution_node_unawaited ==
    /\ pc = "entry_execution"
    /\ \E best_setup \in Setups, limit \in RiskLimits, price \in EntryPrices,
          bias \in {"neutral", "long"}, client \in BOOLEAN :
        LET c == [ best_setup |-> best_setup,
                   account_balance |-> account_balance,
                   position_size_limit |-> limit,
                   current_price |-> price,
                   entry_bias |-> bias,
                   hummingbot_client |-> client ]
        IN  /\ entry_cfg' = c
            /\ cfg' = c
            /\ result' = Raised("TypeError")
            /\ pc' = "raised"
    /\ UNCHANGED << account_balance, positions, open_position, pnl, orders,
                    nManage >>

NextPipelineRun == entry_execution_node_unawaited

\* the graph runtime runs a scheduled node
PipelineRunSpec == Init /\ [][NextPipelineRun]_vars /\ WF_vars(NextPipelineRun)

\* C27 - in every pipeline run the management stage executes if and only
\* if the entry stage left an active position; when the entry fails the
\* run goes straight to the exit stage, which reports that there is no
\* open position; each stage runs at most once; and the run reaches END.
C27_PipelineRunReachesEnd ==
    /\ [][ pc = "entry_execution" =>
             pc' = IF positions'.active THEN "trade_management"
                   ELSE "exit_execution" ]_vars
    /\ [][ pc = "trade_management" => pc' = "exit_execution" ]_vars
    /\ [][ (pc = "exit_execution" /\ ~positions.active) =>
             /\ pc' = "END"
             /\ ~result'.exit_successful
             /\ result'.exit_message = "No open position to exit" ]_vars
    /\ <>(pc = "END")

\* C28 - the trend is up when there are at least two higher highs and two
\* higher lows, down when there are at least two lower highs and two lower
\* lows (a swing equal to its predecessor is neither higher nor lower),
\* otherwise decided by comparing HH + HL with LH + LL with a margin of
\* more than one, else sideways; fewer than three swings, or fewer than two
\* swing highs or two swing lows, is sideways.
C28_TrendClassification ==
    pc = "END" =>
        LET swings == identify_swings(cfg)
            swing_highs == SelectSeq(swings, IsSwingHigh)
            swing_lows == SelectSeq(swings, IsSwingLow)
            HH == CountHigher(swing_highs)
            HL == CountHigher(swing_lows)
            LH == CountLower(swing_highs)
            LL == CountLower(swing_lows)
            direction == result.trend_analysis.direction
        IN  IF Len(swings) < 3 \/ Len(swing_highs) < 2 \/ Len(swing_lows) < 2
            THEN direction = "sideways"
            ELSE IF HH >= 2 /\ HL >= 2 THEN direction = "uptrend"
            ELSE IF LH >= 2 /\ LL >= 2 THEN direction = "downtrend"
            ELSE IF HH + HL > LH + LL + 1 THEN direction = "uptrend"
            ELSE IF LH + LL > HH + HL + 1 THEN direction = "downtrend"
            ELSE direction = "sideways"

\* C29 - in the current-price context the reported nearest support is the
\* highest support zone whose level is below the current price, and the
\* reported nearest resistance is the lowest resistance zone whose level
\* is above the current price.
C29_NearestZones ==
    (pc = "END" /\ result.analysis_complete) =>
        LET support_zones == result.structural_framework.support_zones
            resistance_zones == result.structural_framework.resistance_zones
            below == { support_zones[k].level : k \in 1..Len(support_zones) }
                        \cap 0..(cfg.current_price - 1)
            above == { l \in { resistance_zones[k].level :
                                  k \in 1..Len(resistance_zones) } :
                          l > cfg.current_price }
        IN  /\ below # {} =>
                 /\ result.current_context.nearest_support \in below
                 /\ \A l \in below : l <= result.current_context.nearest_support
            /\ above # {} =>
                 /\ result.current_context.nearest_resistance \in above
                 /\ \A l \in above : l >= result.current_context.nearest_resistance

\* C30 - each projection and depth score lies inside the band assigned to
\* the rating produced (scores in 1/10 point): projection rated normal
\* scores 40-70 and contracting 0-40; depth rated shallow scores 70-100,
\* normal 40-70, deep 0-40 and full_reversal 0.
C30_ScoresInsideRatingBands ==
    "strength_analysis" \in DOMAIN result =>
        LET projection == result.strength_analysis.projection
            depth == result.strength_analysis.depth
        IN  /\ projection.rating = "normal" =>
                 (projection.score >= 400 /\ projection.score <= 700)
            /\ projection.rating = "contracting" =>
                 (projection.score >= 0 /\ projection.score <= 400)
            /\ depth.rating = "shallow" =>
                 (depth.score >= 700 /\ depth.score <= 1000)
            /\ depth.rating = "normal" =>
                 (depth.score >= 400 /\ depth.score <= 700)
            /\ depth.rating = "deep" =>
                 (depth.score >= 0 /\ depth.score <= 400)
            /\ depth.rating = "full_reversal" => depth.score = 0

====
